---- MODULE Spec2Model ----
(***************************************************************************)
(* A model of py_md_doc: the Markdown document generator (PyMdDoc), the    *)
(* parameter extractor (Parameter) and the inheritance merger              *)
(* (ClassInheritance).                                                     *)
(*                                                                         *)
(* A Python str is modelled as a sequence of tokens.  A token is a TLA+    *)
(* string standing for a run of characters that the program's patterns     *)
(* never split (a heading marker, a class name, a table row, a newline);   *)
(* the backquote character is written ' inside a token.                    *)
(* The string operations of the program (find, replace, split, strip and   *)
(* its regular expressions) are computed on these sequences.               *)
(***************************************************************************)
EXTENDS Integers, Sequences, FiniteSets, TLC

VARIABLES
    child_text,     \* get_from_text: the child document handed in
    parent_texts,   \* get_from_text: the ancestor documents, nearest first
    merged,         \* get_from_text: the returned document (<<>> before the call)
    hierarchy,      \* get_from_directory: the classes, each deriving from the next
    in_dir,         \* get_from_directory: the places of the classes whose file is visited
    md_files,       \* get_from_directory: the documents of the output directory
    todo,           \* get_from_directory: the files the second loop has not visited
    visited,        \* get_from_type: the place of the class last handed in, 0 before
    input_directory,    \* get_from_directory: the type of the argument
    output_directory,   \* get_from_directory: the type of the argument
    raised,         \* get_from_directory: the exception raised ("" when none)
    modules,        \* get_from_directory: the files, each with the class it defines
    overrides,      \* get_from_directory: the overrides handed in
    resolved,       \* get_from_directory: the place of the class getattr gave, 0 before
    lookups,        \* get_from_type: the names of the documents read
    source,         \* get_doc: the classes of the source file
    src_lines,      \* get_doc: lines, the source file split at its newlines
    idx,            \* get_doc: i, the index of the loop over the lines (from 1)
    document,       \* get_doc: doc, the document so far
    class_name,     \* get_doc: the name of the class last met, with its bases
    looking_for_class,  \* get_doc: no public class has been met
    metadata,       \* PyMdDoc: self.metadata, the categories of every configured class
    functions_by_categories,    \* get_doc: the blocks set aside, by category
    warnings,       \* get_doc: the warnings printed
    import_prefix,  \* get_doc: the import prefix handed in (<<>> is None)
    special_imports,    \* PyMdDoc: the class names imported by __init__.py
    sort_metadata,  \* DocBase: self.metadata of the sorter
    sorted_doc,     \* sort_by_metadata: the returned document (<<>> before)
    signature,      \* Parameter: the parameters of the signature
    def_str,        \* Parameter: the signature handed in
    param_name,     \* Parameter: the name handed in
    parameter,      \* Parameter: the object constructed (<<>> before)
    txt,            \* get_function_documentation, get_fields: the signature so far
    count,          \* get_function_documentation, get_fields: the lines taken so far
    caller,         \* the function that reconstructs the signature ("" when none)
    pc              \* position of the run

mergeVars == <<child_text, parent_texts, merged>>
argVars == <<input_directory, output_directory, raised>>
nameVars == <<modules, overrides, resolved, lookups>>
dirVars == <<hierarchy, in_dir, md_files, todo, visited, argVars, nameVars>>
metaVars == <<metadata, functions_by_categories, warnings, import_prefix,
              special_imports, sort_metadata, sorted_doc>>
docVars == <<source, src_lines, idx, document, class_name, looking_for_class, metaVars>>
paramVars == <<signature, def_str, param_name, parameter>>
sigVars == <<txt, count, caller>>
vars == <<mergeVars, dirVars, docVars, paramVars, sigVars, pc>>

\* The variables of the parts of the program that a run does not enter.
MergeIdle == child_text = <<>> /\ parent_texts = <<>> /\ merged = <<>>
NameIdle == modules = <<>> /\ overrides = {} /\ resolved = 0 /\ lookups = <<>>
DirIdle ==
    /\ hierarchy = <<>> /\ in_dir = {} /\ md_files = <<>> /\ todo = {} /\ visited = 0
    /\ input_directory = "Path" /\ output_directory = "Path" /\ raised = ""
    /\ NameIdle
MetaIdle ==
    /\ metadata = <<>> /\ functions_by_categories = <<>> /\ warnings = <<>>
    /\ import_prefix = <<>> /\ special_imports = {}
    /\ sort_metadata = <<>> /\ sorted_doc = <<>>
DocIdle ==
    /\ source = <<>> /\ src_lines = <<>> /\ idx = 0 /\ document = <<>>
    /\ class_name = <<>> /\ looking_for_class = TRUE
    /\ MetaIdle
SigIdle == txt = <<>> /\ count = 0 /\ caller = ""
ParamIdle ==
    /\ signature = <<>> /\ def_str = <<>> /\ param_name = <<>> /\ parameter = <<>>
    /\ SigIdle

(***************************************************************************)
(* Bounds of the model.                                                    *)
(***************************************************************************)
MaxParents == 2
MaxClasses == 2
MaxParams == 2

(***************************************************************************)
(* str: tokens and the operations of Python's str on token sequences.      *)
(***************************************************************************)
NL == "\n"
BREAK == "***"

Min(S) == CHOOSE x \in S : \A y \in S : x <= y

\* text[a..b] as Python's text[a-1:b]; empty when b < a.
Slice(text, a, b) == IF b < a THEN <<>> ELSE SubSeq(text, a, b)

\* Whether sub occurs in text at position i.
OccursAt(sub, text, i) ==
    /\ i >= 1
    /\ i + Len(sub) - 1 <= Len(text)
    /\ \A k \in 1..Len(sub) : text[i + k - 1] = sub[k]

\* str.find: the first position >= from where sub occurs, 0 when there is none.
Find(sub, text, from) ==
    LET cands == {i \in from..(Len(text) - Len(sub) + 1) : OccursAt(sub, text, i)}
    IN IF cands = {} THEN 0 ELSE Min(cands)

\* `sub in text`
Contains(text, sub) == Find(sub, text, 1) # 0

\* str.replace(old, new): every non-overlapping occurrence, left to right.
\* (An empty `old` is not used by the program on the documents modelled.)
RECURSIVE ReplaceFrom(_, _, _, _)
ReplaceFrom(text, old, new, from) ==
    LET i == Find(old, text, from)
    IN IF i = 0 \/ Len(old) = 0
       THEN Slice(text, from, Len(text))
       ELSE Slice(text, from, i - 1) \o new \o ReplaceFrom(text, old, new, i + Len(old))

Replace(text, old, new) == ReplaceFrom(text, old, new, 1)

\* str.strip(): the whitespace tokens are the newline, the blank and the
\* indentation.
Strip(text) ==
    LET keep == {i \in 1..Len(text) : text[i] \notin {NL, " ", "    "}}
    IN IF keep = {} THEN <<>>
       ELSE Slice(text, Min(keep), CHOOSE x \in keep : \A y \in keep : y <= x)

\* The end of the line that holds position i: the position of the next newline
\* token at or after i, Len(text) + 1 when there is none.
LineEnd(text, i) ==
    LET nls == {j \in i..Len(text) : text[j] = NL}
    IN IF nls = {} THEN Len(text) + 1 ELSE Min(nls)

\* `^` under re.MULTILINE: position i starts a line.
AtLineStart(text, i) == i = 1 \/ (i > 1 /\ text[i - 1] = NL)

\* str.split("\n"): the lines of the text, each a token sequence.
RECURSIVE SplitLinesFrom(_, _)
SplitLinesFrom(text, from) ==
    LET e == LineEnd(text, from)
    IN IF e > Len(text)
       THEN <<Slice(text, from, Len(text))>>
       ELSE <<Slice(text, from, e - 1)>> \o SplitLinesFrom(text, e + 1)

SplitLines(text) == SplitLinesFrom(text, 1)

\* "\n".join(lines) and "\n\n".join(lines)
RECURSIVE Join(_, _)
Join(sep, lines) ==
    IF Len(lines) = 0 THEN <<>>
    ELSE IF Len(lines) = 1 THEN lines[1]
    ELSE lines[1] \o sep \o Join(sep, Tail(lines))

\* text.split("***")[0] and len(text.split("***")) == 1
SplitBreakHead(text) ==
    LET i == Find(<<BREAK>>, text, 1)
    IN IF i = 0 THEN text ELSE Slice(text, 1, i - 1)

(***************************************************************************)
(* Tokens of a rendered document.                                          *)
(***************************************************************************)
H1 == "# "
H4 == "#### "
CLASS_VARIABLES == "## Class Variables"
FIELDS == "## Fields"
FUNCTIONS == "## Functions"
INIT_NAME == "\\_\\_init\\_\\_"
BULLET == "- "
CALL_OPEN == "**'"
CALL_CLOSE == "'**"
LPAREN == "("
RPAREN == ")"
TABLE3_HEAD == "| Variable | Type | Description |"
TABLE3_RULE == "| --- | --- | --- |"
TABLE4_HEAD == "| Variable | Type | Description | Value |"
TABLE4_RULE == "| --- | --- | --- | --- |"
PARAM_HEAD == "| Parameter | Type | Default | Description |"
ENUM_HEAD == "| Value | Description |"
ENUM_RULE == "| --- | --- |"
PARAM_ROW == "| x |  int |  | X. |"
STATIC_NOTE == "_This is a static function._"

\* Tokens whose first character is `#` (the `^#` of the patterns).
StartsWithHash(tok) == tok \in {H1, H4, CLASS_VARIABLES, FIELDS, FUNCTIONS, "### "}

\* Tokens whose last character is `*`.
EndsWithStar(tok) == tok \in {CALL_CLOSE, BREAK}

\* Every token, in the order of Python's str comparison (code points).
Alphabet ==
    << "# ", "## Class Variables", "## Fields", "## Functions", "### ", "#### ",
       "(", ")", "***", "**'", "- ", ".",
       "ABC", "Base", "Child", "Description of ", "Documented by ",
       "Root", "Top", "\\_\\_init\\_\\_", "_This is a static function._",
       "'", "'**", "'from pkg import ", "continued", "do", "field of ", "go",
       "self", "x",
       "| --- | --- | --- |", "| --- | --- | --- | --- |",
       "| Parameter | Type | Default | Description |",
       "| Variable | Type | Description |",
       "| Variable | Type | Description | Value |",
       "| 'A' | int | a |", "| 'B' | int | b |", "| 'C' | int | c |",
       "| 'D' | int | d |", "| x |  int |  | X. |" >>

TokRank(tok) == CHOOSE i \in 1..Len(Alphabet) : Alphabet[i] = tok

\* a < b for two lines, as Python compares str: token by token, a proper
\* prefix first.
RECURSIVE LineLess(_, _)
LineLess(a, b) ==
    IF Len(b) = 0 THEN FALSE
    ELSE IF Len(a) = 0 THEN TRUE
    ELSE IF a[1] = b[1] THEN LineLess(Tail(a), Tail(b))
    ELSE TokRank(a[1]) < TokRank(b[1])

\* sorted(S) for a set of lines.
RECURSIVE SortedLines(_)
SortedLines(S) ==
    IF S = {} THEN <<>>
    ELSE LET m == CHOOSE x \in S : \A y \in S \ {x} : LineLess(x, y)
         IN <<m>> \o SortedLines(S \ {m})

Range(seq) == {seq[i] : i \in 1..Len(seq)}

\* The elements of a list in order, each kept at its first occurrence.
RECURSIVE Distinct(_)
Distinct(seq) ==
    IF Len(seq) = 0 THEN <<>>
    ELSE LET front == Distinct(SubSeq(seq, 1, Len(seq) - 1))
         IN IF seq[Len(seq)] \in Range(front) THEN front
            ELSE Append(front, seq[Len(seq)])

RECURSIVE Flatten(_)
Flatten(seqs) == IF Len(seqs) = 0 THEN <<>> ELSE seqs[1] \o Flatten(Tail(seqs))

(***************************************************************************)
(* ClassInheritance.get_from_text                                          *)
(***************************************************************************)

\* re.search(r'^# (.*)', text, flags=re.MULTILINE).group(1)
ClassNameOf(text) ==
    LET i == Min({j \in 1..Len(text) : text[j] = H1 /\ AtLineStart(text, j)})
    IN Slice(text, i + 1, LineEnd(text, i + 1) - 1)

\* The section patterns  ^<heading>((.|\n)*?)(\*\*\*|\Z) : the first heading
\* at a line start at or after `from`, 0 when there is none.
HeadingAt(text, heading, from) ==
    LET c == {i \in from..Len(text) : text[i] = heading /\ AtLineStart(text, i)}
    IN IF c = {} THEN 0 ELSE Min(c)

\* The position of the section break that closes a lazy ((.|\n)*?)(\*\*\*|\Z)
\* started at position i: the first break at or after i, else Len(text) + 1.
LazyEnd(text, i) ==
    LET b == Find(<<BREAK>>, text, i)
    IN IF b = 0 THEN Len(text) + 1 ELSE b

\* re_class_variables = ^## Class Variables\n\n(.*)\n(.*)\n((.|\n)*?)(\*\*\*|\Z)
\* matches at i: the heading, a blank line, two lines each closed by a newline.
ReClassVariablesAt(text, i) ==
    /\ text[i] = CLASS_VARIABLES
    /\ AtLineStart(text, i)
    /\ i + 2 <= Len(text)
    /\ text[i + 1] = NL
    /\ text[i + 2] = NL
    /\ LineEnd(text, i + 3) <= Len(text)
    /\ LineEnd(text, LineEnd(text, i + 3) + 1) <= Len(text)

ReClassVariablesSearch(text, from) ==
    LET c == {i \in from..Len(text) : ReClassVariablesAt(text, i)}
    IN IF c = {} THEN 0 ELSE Min(c)

\* Where group(3) of a match at i starts.
ClassVariablesRowsStart(text, i) == LineEnd(text, LineEnd(text, i + 3) + 1) + 1

\* search.group(3).strip().split("\n") of the first match; <<>> without one.
ClassVariableLines(text) ==
    LET i == ReClassVariablesSearch(text, 1)
    IN IF i = 0 THEN <<>>
       ELSE LET a == ClassVariablesRowsStart(text, i)
            IN SplitLines(Strip(Slice(text, a, LazyEnd(text, a) - 1)))

\* re.sub(re_class_variables, repl, text): every match is replaced, the
\* closing section break of the match included.
RECURSIVE ReClassVariablesSub(_, _, _)
ReClassVariablesSub(text, repl, from) ==
    LET i == ReClassVariablesSearch(text, from)
    IN IF i = 0 THEN Slice(text, from, Len(text))
       ELSE Slice(text, from, i - 1) \o repl
            \o ReClassVariablesSub(text, repl,
                                   LazyEnd(text, ClassVariablesRowsStart(text, i)) + 1)

\* class_variables as collected from the ancestors, then the child.
CollectClassVariables(text, parents) ==
    Flatten([k \in 1..Len(parents) |-> ClassVariableLines(parents[k])])
    \o ClassVariableLines(text)

\* list(sorted(set(class_variables))), without the set(): a list sorted with
\* its duplicates kept.
RECURSIVE SortedWithDuplicates(_)
SortedWithDuplicates(lines) ==
    IF Len(lines) = 0 THEN <<>>
    ELSE LET i == CHOOSE i \in 1..Len(lines) :
                    \A j \in 1..Len(lines) : ~LineLess(lines[j], lines[i])
         IN <<lines[i]>> \o SortedWithDuplicates(
                SubSeq(lines, 1, i - 1) \o SubSeq(lines, i + 1, Len(lines)))

\* class_variables = list(sorted(set(class_variables)))
SortedSet(lines) == SortedLines(Range(lines))

\* Lines 117-139: the class variables step.
MergeClassVariables(text, parents) ==
    LET class_variables == SortedSet(CollectClassVariables(text, parents))
        class_variables_text ==
            <<CLASS_VARIABLES, NL, NL, TABLE4_HEAD, NL, TABLE4_RULE, NL>>
            \o Join(<<NL>>, class_variables)
        head == SplitBreakHead(text)
    IN IF Len(class_variables) = 0 THEN text
       ELSE IF Contains(text, <<CLASS_VARIABLES>>)
            THEN ReClassVariablesSub(text, class_variables_text, 1)
       ELSE IF ~Contains(text, <<BREAK>>)
            THEN text \o <<NL, NL, BREAK, NL, NL>> \o class_variables_text
       ELSE Strip(Replace(text, head,
                Strip(head) \o <<NL, NL>> \o Strip(class_variables_text) \o <<NL, NL>>))

\* re.search(re_fields, text).group(1): the text between the first
\* `## Fields` heading and the section break that follows it.
FieldsGroup(text) ==
    LET i == HeadingAt(text, FIELDS, 1)
    IN Slice(text, i + 1, LazyEnd(text, i + 1) - 1)

\* re.findall(r'^(- (.*?)$)', group.strip(), MULTILINE): the lines that start
\* with a bullet, each to its end; the other lines are not part of any match.
FieldBullets(group) ==
    SelectSeq(SplitLines(Strip(group)), LAMBDA l : Len(l) > 0 /\ l[1] = BULLET)

\* parent_fields: the bullets of every ancestor that has a Fields section.
ParentFields(parents) ==
    Flatten([k \in 1..Len(parents) |->
                IF HeadingAt(parents[k], FIELDS, 1) = 0 THEN <<>>
                ELSE FieldBullets(FieldsGroup(parents[k]))])

\* Lines 159-165 with the ancestors' bullets put before the child's.
AppendFieldsParentsFirst(text, parent_fields) ==
    LET child_fields_text == FieldsGroup(text)
        fields == parent_fields \o FieldBullets(child_fields_text)
    IN Strip(Replace(text, child_fields_text,
                     <<NL, NL>> \o Join(<<NL, NL>>, fields) \o <<NL, NL>>))

\* Lines 159-165: the child has a Fields section; its bullets come first.
AppendFields(text, parent_fields) ==
    LET child_fields_text == FieldsGroup(text)
        fields == FieldBullets(child_fields_text) \o parent_fields
    IN Strip(Replace(text, child_fields_text,
                     <<NL, NL>> \o Join(<<NL, NL>>, fields) \o <<NL, NL>>))

\* Lines 140-165: the fields step.
MergeFields(text, parents) ==
    LET parent_fields == ParentFields(parents)
        section == <<NL, NL, BREAK, NL, NL, FIELDS, NL, NL>>
                   \o Join(<<NL, NL>>, parent_fields)
                   \o <<NL, NL, BREAK, NL, NL>>
        head == SplitBreakHead(text)
    IN IF Len(parent_fields) = 0 THEN text
       ELSE IF ~Contains(text, <<FIELDS>>)
            THEN IF ~Contains(text, <<BREAK>>)
                 THEN Strip(text) \o section
                 ELSE Replace(text, head, Strip(head) \o section)
       ELSE AppendFields(text, parent_fields)

\* re_init = ## Functions\n\n#### (\\_\\_init\\_\\_((.|\n)*?))(^#|\Z)
\* The position of the constructor's name in the first match, 0 without one.
ReInitSearch(text) ==
    LET c == {i \in 1..Len(text) :
                OccursAt(<<FUNCTIONS, NL, NL, H4, INIT_NAME>>, text, i)}
    IN IF c = {} THEN 0 ELSE Min(c) + 4

\* The end of a lazy ((.|\n)*?)(^#|\Z) started at position i: the first line
\* start at or after i that holds a `#`, else Len(text) + 1.
NextHashLine(text, i) ==
    LET c == {j \in i..Len(text) : StartsWithHash(text[j]) /\ AtLineStart(text, j)}
    IN IF c = {} THEN Len(text) + 1 ELSE Min(c)

\* search.group(1) of re_init: the name and the text to the next heading.
InitGroup(text) ==
    LET i == ReInitSearch(text)
    IN Slice(text, i, NextHashLine(text, i + 1) - 1)

\* Lines 174-180: the first ancestor, nearest first, that re_init matches.
RECURSIVE ParentInit(_)
ParentInit(parents) ==
    IF Len(parents) = 0 THEN <<>>
    ELSE IF ReInitSearch(parents[1]) # 0 THEN InitGroup(parents[1])
    ELSE ParentInit(Tail(parents))

\* Lines 166-184: the text stored for the constructor.  (The text an
\* ancestor's match gives is never empty: it begins with the name.)
InitText(text, parents) ==
    LET init == IF ReInitSearch(text) = 0 THEN ParentInit(parents) ELSE <<>>
    IN IF Len(init) = 0
       THEN <<INIT_NAME, NL, NL, CALL_OPEN>> \o ClassNameOf(text)
            \o <<LPAREN, RPAREN, CALL_CLOSE>>
       ELSE Strip(init)

\* re.search(re_functions, text).group(1).strip(): the Functions section, from
\* its heading to the next section break; <<>> when there is no heading.
FunctionsSection(text) ==
    LET i == HeadingAt(text, FUNCTIONS, 1)
    IN IF i = 0 THEN <<>> ELSE Strip(Slice(text, i + 1, LazyEnd(text, i + 1) - 1))

\* re.findall(r'^#### (.*)((.|\n)*?)(?=^#|\Z)', section, MULTILINE): for every
\* function heading its name (the rest of the line) and the text after it up
\* to the next line that starts with `#`.
RECURSIVE ReFunctionFindAll(_, _)
ReFunctionFindAll(section, from) ==
    LET i == HeadingAt(section, H4, from)
    IN IF i = 0 THEN <<>>
       ELSE LET e == LineEnd(section, i + 1)
                n == NextHashLine(section, e)
            IN <<[name |-> Slice(section, i + 1, e - 1),
                  body |-> Slice(section, e, n - 1)]>>
               \o ReFunctionFindAll(section, n)

FunctionBlocks(text) == ReFunctionFindAll(FunctionsSection(text), 1)

\* fn[1].strip()[-1] == "*": the block ends with a call example, it has no
\* description.  (A heading with nothing under it makes the program raise
\* IndexError; get_doc renders no such block.)
LacksDocstring(body) ==
    LET s == Strip(body) IN Len(s) > 0 /\ EndsWithStar(s[Len(s)])

Keys(functions) == {functions[i].name : i \in 1..Len(functions)}

\* functions[name] = body on a dict that would move an assigned key to the
\* end.
DictSetLast(functions, name, body) ==
    Append(SelectSeq(functions, LAMBDA f : f.name # name),
           [name |-> name, body |-> body])

\* functions[name] = body on a dict that keeps insertion order: a new key is
\* appended, a known key keeps its place.
DictSet(functions, name, body) ==
    IF name \in Keys(functions)
    THEN [i \in 1..Len(functions) |->
            IF functions[i].name = name THEN [name |-> name, body |-> body]
            ELSE functions[i]]
    ELSE Append(functions, [name |-> name, body |-> body])

\* Lines 193-197: the blocks of one ancestor; a known name and a block
\* without a docstring are skipped.
RECURSIVE AddParentFunctions(_, _)
AddParentFunctions(functions, pf) ==
    IF Len(pf) = 0 THEN functions
    ELSE AddParentFunctions(
            IF pf[1].name \in Keys(functions) \/ LacksDocstring(pf[1].body)
            THEN functions
            ELSE DictSet(functions, pf[1].name, Strip(pf[1].body)),
            Tail(pf))

\* Lines 189-197: every ancestor, nearest first.
RECURSIVE AddAllParents(_, _)
AddAllParents(functions, parents) ==
    IF Len(parents) = 0 THEN functions
    ELSE AddAllParents(AddParentFunctions(functions, FunctionBlocks(parents[1])),
                       Tail(parents))

\* Lines 198-205 with the test of lines 193-197: a child that would leave a
\* known name to the ancestors.
RECURSIVE AddChildFunctionsUnlessKnown(_, _)
AddChildFunctionsUnlessKnown(functions, pf) ==
    IF Len(pf) = 0 THEN functions
    ELSE AddChildFunctionsUnlessKnown(
            IF pf[1].name \in Keys(functions) \/ LacksDocstring(pf[1].body)
            THEN functions
            ELSE DictSet(functions, pf[1].name, Strip(pf[1].body)),
            Tail(pf))

\* Lines 198-205: the blocks of the child; a block without a docstring is
\* skipped, any other replaces what the ancestors gave.
RECURSIVE AddChildFunctions(_, _)
AddChildFunctions(functions, pf) ==
    IF Len(pf) = 0 THEN functions
    ELSE AddChildFunctions(
            IF LacksDocstring(pf[1].body) THEN functions
            ELSE DictSet(functions, pf[1].name, Strip(pf[1].body)),
            Tail(pf))

\* Lines 186-205: the dict of function blocks, the constructor first.
FunctionsDict(text, parents, init) ==
    AddChildFunctions(
        AddAllParents(<<[name |-> <<INIT_NAME>>, body |-> init]>>, parents),
        FunctionBlocks(text))

\* Line 206: "\n\n".join([f"#### {k}\n\n{v}" for k, v in functions.items()])
FunctionText(functions) ==
    Join(<<NL, NL>>,
         [i \in 1..Len(functions) |->
            <<H4>> \o functions[i].name \o <<NL, NL>> \o functions[i].body])

\* re.sub(re_functions, repl, text): every match, its closing break included.
RECURSIVE ReFunctionsSub(_, _, _)
ReFunctionsSub(text, repl, from) ==
    LET i == HeadingAt(text, FUNCTIONS, from)
    IN IF i = 0 THEN Slice(text, from, Len(text))
       ELSE Slice(text, from, i - 1) \o repl
            \o ReFunctionsSub(text, repl, LazyEnd(text, i + 1) + 1)

\* Lines 186-212: the functions step.
MergeFunctions(text, parents, init) ==
    LET function_text == FunctionText(FunctionsDict(text, parents, init))
    IN IF Contains(text, <<FUNCTIONS>>)
       THEN ReFunctionsSub(text, <<FUNCTIONS, NL, NL>> \o function_text, 1)
       ELSE Strip(text) \o <<NL, NL, BREAK, NL, NL, FUNCTIONS, NL, NL>>
            \o function_text

\* Lines 214-216: the ancestors' names are rewritten to the child's.
RECURSIVE RewriteNames(_, _, _)
RewriteNames(text, child_class_name, parent_class_names) ==
    IF Len(parent_class_names) = 0 THEN text
    ELSE LET p == parent_class_names[1]
             a == Replace(text, p \o <<LPAREN>>, child_class_name \o <<LPAREN>>)
             b == Replace(a, child_class_name \o <<LPAREN>> \o p \o <<RPAREN>>,
                          child_class_name)
         IN RewriteNames(b, child_class_name, Tail(parent_class_names))

\* Lines 217-223: a section break is put before the Fields heading, or else
\* before the Functions heading, when the document has class variables.
SectionBreaks(text) ==
    IF ~Contains(text, <<CLASS_VARIABLES>>) THEN text
    ELSE IF Contains(text, <<FIELDS>>) /\ ~Contains(text, <<BREAK, NL, NL, FIELDS>>)
         THEN Replace(text, <<FIELDS>>, <<BREAK, NL, NL, FIELDS>>)
    ELSE IF Contains(text, <<FUNCTIONS>>)
            /\ ~Contains(text, <<BREAK, NL, NL, FUNCTIONS>>)
         THEN Replace(text, <<FUNCTIONS>>, <<BREAK, NL, NL, FUNCTIONS>>)
    ELSE text

\* ClassInheritance.get_from_text(child_text, parent_texts)
get_from_text(text, parents) ==
    LET child_class_name == ClassNameOf(text)
        t1 == MergeClassVariables(text, parents)
        t2 == MergeFields(t1, parents)
        parent_class_names == [k \in 1..Len(parents) |-> ClassNameOf(parents[k])]
        t3 == MergeFunctions(t2, parents, InitText(t2, parents))
        t4 == Replace(t3, <<BREAK, NL, NL, BREAK>>, <<BREAK>>)
        t5 == RewriteNames(t4, child_class_name, parent_class_names)
        t6 == SectionBreaks(t5)
    IN Replace(t6, child_class_name \o <<LPAREN, "ABC", RPAREN>>, child_class_name)

(***************************************************************************)
(* The documents get_doc renders, as the merger receives them.  A class is *)
(* described by                                                            *)
(*   name, base : its name and the name in the parentheses of its class    *)
(*                statement (<<>> without one);                            *)
(*   rows       : the rows of its class variables table;                   *)
(*   init       : "none", "plain" (a constructor without docstring) or     *)
(*                "doc" (a constructor that documents its parameter x);    *)
(*   fields     : the field entries found in the constructor;              *)
(*   funcs      : its other functions, [name, doc, static].                *)
(***************************************************************************)

\* class_name of get_doc: the text between `class ` and the colon.
ClassStatementName(c) ==
    IF Len(c.base) = 0 THEN c.name ELSE c.name \o <<LPAREN>> \o c.base \o <<RPAREN>>

\* get_function_documentation, lines 541-593: the block of a function other
\* than the constructor.  The description is one line, there is no parameter.
RenderFunction(c, f) ==
    <<H4, f.name, NL, NL, CALL_OPEN>>
    \o (IF f.static THEN ClassStatementName(c) ELSE <<"self">>)
    \o <<".", f.name, LPAREN, RPAREN, CALL_CLOSE>>
    \o (IF f.static THEN <<NL, NL, STATIC_NOTE>> ELSE <<>>)
    \o (IF f.doc THEN <<NL, NL, "Documented by ">> \o c.name ELSE <<>>)

\* get_function_documentation, lines 541-593: the block of the constructor.
RenderInit(c) ==
    <<H4, INIT_NAME, NL, NL, CALL_OPEN>> \o c.name
    \o (IF c.init = "doc"
        THEN <<LPAREN, "x", RPAREN, CALL_CLOSE, NL, NL,
               PARAM_HEAD, NL, TABLE4_RULE, NL, PARAM_ROW>>
        ELSE <<LPAREN, RPAREN, CALL_CLOSE>>)

\* get_doc, lines 151-188: the document of one class.
RenderDoc(c) ==
    <<H1>> \o c.name \o <<NL, NL, "'from pkg import ">> \o c.name \o <<"'", NL, NL,
      "Description of ">> \o c.name \o <<NL, NL, BREAK, NL, NL>>
    \o (IF Len(c.rows) = 0 THEN <<>>
        ELSE <<CLASS_VARIABLES, NL, NL, TABLE3_HEAD, NL, TABLE3_RULE, NL>>
             \o Join(<<NL>>, [i \in 1..Len(c.rows) |-> <<c.rows[i]>>])
             \o <<NL, NL, BREAK, NL, NL>>)
    \o (IF c.init = "none" THEN <<>>
        ELSE (IF Len(c.fields) = 0 THEN <<>>
              ELSE <<FIELDS, NL, NL>> \o Join(<<NL, NL>>, c.fields)
                   \o <<NL, NL, BREAK, NL, NL>>)
             \o <<FUNCTIONS, NL, NL>> \o RenderInit(c) \o <<NL, NL>>)
    \o Flatten([i \in 1..Len(c.funcs) |-> RenderFunction(c, c.funcs[i]) \o <<NL, NL>>])

\* The class names of the hierarchy, the child first.
ClassNames == <<"Child", "Base", "Root", "Top", "ABC">>

Rows == <<"| 'A' | int | a |", "| 'B' | int | b |">>

\* The row lists of a class: none, one row, two rows in the order of the
\* source (here not the sorted one).
RowLists == {<<>>, <<Rows[1]>>, <<Rows[2]>>, <<Rows[2], Rows[1]>>}

\* get_fields: an entry is a bullet; a description of two lines continues on
\* the next line.
Field(owner) == <<BULLET, "field of ", owner>>
LongField == <<BULLET, "x", NL, "continued">>

Fn(name, doc, static) == [name |-> name, doc |-> doc, static |-> static]

\* The function lists of a class.
FuncLists ==
    { <<>>,
      <<Fn("go", TRUE, FALSE)>>,
      <<Fn("go", FALSE, FALSE)>>,
      <<Fn("do", TRUE, TRUE), Fn("go", TRUE, FALSE)>>,
      <<Fn("go", FALSE, FALSE), Fn("do", TRUE, FALSE)>>,
      <<Fn("do", FALSE, TRUE)>> }

Class(level, rows, init, fields, funcs) ==
    [name |-> <<ClassNames[level]>>, base |-> <<ClassNames[level + 1]>>,
     rows |-> rows, init |-> init, fields |-> fields, funcs |-> funcs]

\* The constructors of a class with the fields found in them.
InitShapes(level) ==
    { <<"none", <<>>>>, <<"plain", <<>>>>, <<"doc", <<Field(ClassNames[level])>>>>,
      <<"doc", <<LongField, Field(ClassNames[level])>>>> }

\* The child classes of the model.
ChildClasses ==
    { Class(1, r, s[1], s[2], f) : r \in RowLists, s \in InitShapes(1), f \in FuncLists }

\* The classes of the model at the level-th place of the hierarchy: six for
\* the parent, four of them for the ancestors above it.
AncestorClasses(level) ==
    { Class(level, <<Rows[2], Rows[1]>>, "doc", <<Field(ClassNames[level])>>,
            <<Fn("go", TRUE, FALSE), Fn("do", TRUE, TRUE)>>),
      Class(level, <<Rows[1]>>, "plain", <<>>,
            <<Fn("do", FALSE, FALSE), Fn("go", TRUE, FALSE)>>),
      Class(level, <<>>, "doc", <<LongField>>, <<Fn("go", FALSE, FALSE)>>),
      Class(level, <<Rows[2]>>, "none", <<>>, <<Fn("go", TRUE, FALSE)>>) }
    \cup (IF level > 2 THEN {}
          ELSE { Class(level, <<>>, "none", <<>>, <<>>),
                 Class(level, <<>>, "plain", <<Field(ClassNames[level])>>,
                       <<Fn("do", TRUE, FALSE)>>) })

\* The lists of ancestor documents: the k nearest ancestors, k <= MaxParents.
RECURSIVE AncestorLists(_)
AncestorLists(k) ==
    IF k = 0 THEN {<<>>}
    ELSE { Append(l, RenderDoc(c)) : l \in AncestorLists(k - 1),
                                     c \in AncestorClasses(k + 1) }

ParentTextLists == UNION {AncestorLists(k) : k \in 0..MaxParents}

(***************************************************************************)
(* The run of get_from_text on a child and its ancestors.                  *)
(***************************************************************************)
Init ==
    /\ child_text \in {RenderDoc(c) : c \in ChildClasses}
    /\ parent_texts \in ParentTextLists
    /\ merged = <<>>
    /\ pc = "start"
    /\ DirIdle /\ DocIdle /\ ParamIdle

GetFromText ==
    /\ pc = "start"
    /\ merged' = get_from_text(child_text, parent_texts)
    /\ pc' = "done"
    /\ UNCHANGED <<child_text, parent_texts, dirVars, docVars, paramVars, sigVars>>

Next == GetFromText

Spec == Init /\ [][Next]_vars

(***************************************************************************)
(* get_from_text on a whole hierarchy: the child, named Child or MyBase,   *)
(* derives from Base, every ancestor from the next one, and the last class *)
(* of the chain from ABC.  The name MyBase, of two tokens, ends with the   *)
(* name of its parent.                                                     *)
(***************************************************************************)
ChildNames == {<<"Child">>, <<"My", "Base">>}

\* The documents of k ancestors, the last of them derived from ABC.
ChainTexts(k) ==
    { [j \in 1..k |->
          RenderDoc([ps[j] EXCEPT !.base = IF j = k THEN <<"ABC">> ELSE @])] :
        ps \in { qs \in [1..k -> UNION {AncestorClasses(j + 1) : j \in 1..k}] :
                    \A j \in 1..k : qs[j] \in AncestorClasses(j + 1) } }

InitNames ==
    /\ \E cname \in ChildNames, k \in 0..MaxParents :
          /\ child_text \in
                { RenderDoc([c EXCEPT !.name = cname,
                                     !.base = IF k = 0 THEN <<"ABC">> ELSE @]) :
                    c \in {d \in ChildClasses : d.rows = <<>>} }
          /\ parent_texts \in ChainTexts(k)
    /\ merged = <<>>
    /\ pc = "start"
    /\ DirIdle /\ DocIdle /\ ParamIdle

SpecNames == InitNames /\ [][Next]_vars

(***************************************************************************)
(* Parameter.__init__(name, description, def_str).  A signature is a       *)
(* sequence of tokens in which every character the patterns look at        *)
(* (the colon, the equals sign, the comma, the brackets, the parentheses,  *)
(* the bar, a blank) is a token of its own; a name is a sequence of        *)
(* tokens, so that one name can end with another.                          *)
(***************************************************************************)
SP == " "

\* The first position >= from of a token of the set, 0 when there is none:
\* the end of a lazy (.*?) before a character class.
FirstOf(text, toks, from) ==
    LET c == {j \in from..Len(text) : text[j] \in toks}
    IN IF c = {} THEN 0 ELSE Min(c)

\* text.split(tok)[0]
SplitHead(text, tok) ==
    LET j == Find(<<tok>>, text, 1)
    IN IF j = 0 THEN text ELSE Slice(text, 1, j - 1)

\* Lines 26-34: re.search(name + r":(.*?)[:|=|\)]", def_str) and the cut of
\* its group at the first `]`, or else at the first comma.
ParamType(pname, ds) ==
    LET j == Find(pname \o <<":">>, ds, 1)
        a == j + Len(pname) + 1
        e == IF j = 0 THEN 0 ELSE FirstOf(ds, {":", "|", "=", ")"}, a)
        group == Slice(ds, a, e - 1)
    IN IF j = 0 \/ e = 0 THEN <<>>
       ELSE IF Contains(group, <<"]">>) THEN SplitHead(group, "]") \o <<"]">>
       ELSE SplitHead(group, ",")

\* Lines 38-42: the colons and the type are taken out of the signature, then
\* re.search(name + r"[ ]{0,1}=(.*?)[,|\)]", no_type).group(1).strip().
DefaultValue(pname, ds) ==
    LET no_type == Replace(Replace(ds, <<":">>, <<>>), ParamType(pname, ds), <<>>)
        tight == {j \in 1..Len(no_type) : OccursAt(pname \o <<"=">>, no_type, j)}
        loose == {j \in 1..Len(no_type) : OccursAt(pname \o <<SP, "=">>, no_type, j)}
        j == Min(tight \cup loose)
        a == j + Len(pname) + (IF j \in loose THEN 2 ELSE 1)
        e == FirstOf(no_type, {",", "|", ")"}, a)
    IN IF tight \cup loose = {} THEN <<>>
       ELSE IF e = 0 THEN <<>>
       ELSE Strip(Slice(no_type, a, e - 1))

\* The object the constructor leaves.
Parameter(pname, description, ds) ==
    [name |-> pname, description |-> description,
     param_type |-> ParamType(pname, ds), default_value |-> DefaultValue(pname, ds)]

(***************************************************************************)
(* The signatures handed to Parameter: `def f(<parameters>)`, a parameter  *)
(* written  name[: annotation][ = default]  as PEP 8 spaces it.            *)
(***************************************************************************)
Annotations ==
    { <<>>, <<"int">>, <<"List", "[", "int", "]">>,
      <<"Dict", "[", "str", ",", SP, "List", "[", "int", "]", "]">> }

Defaults == { <<>>, <<"None">>, <<"3">> }

\* The names a parameter may have at each place of the signature.
NamesAt(k) ==
    IF k = 1 THEN { <<"x">>, <<"a", "x">> }
    ELSE IF k = 2 THEN { <<"y">>, <<"x">> }
    ELSE { <<"z">> }

Param(pname, annotation, default) ==
    [name |-> pname, annotation |-> annotation, default |-> default]

RenderParam(p) ==
    p.name
    \o (IF Len(p.annotation) = 0 THEN <<>> ELSE <<":", SP>> \o p.annotation)
    \o (IF Len(p.default) = 0 THEN <<>>
        ELSE IF Len(p.annotation) = 0 THEN <<"=">> \o p.default
        ELSE <<SP, "=", SP>> \o p.default)

RenderParams(ps) == Join(<<",", SP>>, [k \in 1..Len(ps) |-> RenderParam(ps[k])])

RenderSignature(ps) == <<"def ", "f", LPAREN>> \o RenderParams(ps) \o <<RPAREN>>

\* The parameter lists of n parameters, no name twice.
Signatures(n) ==
    { ps \in [1..n -> [name : UNION {NamesAt(k) : k \in 1..n},
                       annotation : Annotations, default : Defaults]] :
        /\ \A k \in 1..n : ps[k].name \in NamesAt(k)
        /\ \A j, k \in 1..n : j # k => ps[j].name # ps[k].name }

InitParam ==
    /\ \E n \in 1..MaxParams : signature \in Signatures(n)
    /\ def_str = RenderSignature(signature)
    /\ param_name \in {signature[k].name : k \in 1..Len(signature)}
    /\ parameter = <<>>
    /\ pc = "param"
    /\ SigIdle /\ MergeIdle /\ DirIdle /\ DocIdle

\* Parameter(name=param_name, description=..., def_str=def_str)
NewParameter ==
    /\ pc = "param"
    /\ parameter' = Parameter(param_name, <<"X.">>, def_str)
    /\ pc' = "parameter"
    /\ UNCHANGED <<signature, def_str, param_name, mergeVars, dirVars, docVars, sigVars>>

NextParam == NewParameter

SpecParam == InitParam /\ [][NextParam]_vars

(***************************************************************************)
(* PyMdDoc.get_doc on one source file.  The file is a list of lines, a     *)
(* line a sequence of tokens: the keywords `class ` and `def `, the        *)
(* indentation, the triple quote, the tags of a docstring, and the tokens  *)
(* of a signature.  A name that begins with underscores has them as        *)
(* tokens of their own: _helper is <<"_", "helper">>, __init__ is          *)
(* <<"__", "init", "__">>.                                                 *)
(*                                                                         *)
(* The sources of the model hold no `[TOC]` marker, and every signature    *)
(* fits on its line.  The metadata, the special imports and the import     *)
(* prefix are empty unless the specification sets them.                    *)
(***************************************************************************)
INDENT == "    "
QUOTES == "\"\"\""
INIT == <<"__", "init", "__">>

\* A token whose first character is the underscore.
Underscored(tok) == tok \in {"_", "__"}

\* The last position of a token of the line, 0 when it has none.
LastOf(line, tok) ==
    LET c == {j \in 1..Len(line) : line[j] = tok}
    IN IF c = {} THEN 0 ELSE CHOOSE j \in c : \A k \in c : k <= j

\* Line 141: re.search("class _(.*):", line)
IsPrivateClass(line) ==
    \E j \in 1..Len(line) - 1 :
        /\ line[j] = "class " /\ Underscored(line[j + 1])
        /\ \E k \in j + 1..Len(line) : line[k] = ":"

\* Line 146: re.search("class (.*):", line).group(1), the greedy group
\* reaching to the last colon.
ClassName(line) ==
    Slice(line, Find(<<"class ">>, line, 1) + 1, LastOf(line, ":") - 1)

\* Line 147: re.sub(r"(.*)\((.*)\)", r"\1", class_name): what stands from the
\* last opening parenthesis through the last closing one is taken out.
ClassHeader(cname) ==
    LET close == LastOf(cname, RPAREN)
        open == LastOf(Slice(cname, 1, close - 1), LPAREN)
    IN IF close = 0 \/ open = 0 THEN cname
       ELSE Slice(cname, 1, open - 1) \o Slice(cname, close + 1, Len(cname))

\* Lines 455-469: get_class_description(file_txt), the description under the
\* first class statement of the file whose name begins with a letter of
\* [aA-Zz] and that is followed by a line with the triple quote only: its
\* lines up to the closing triple quote, without their indentation.
DescribedClassLines(ls) ==
    {k \in 1..Len(ls) - 1 :
        /\ Len(ls[k]) >= 3 /\ ls[k][1] = "class "
        /\ ~Underscored(ls[k][2]) /\ ls[k][Len(ls[k])] = ":"
        /\ Strip(ls[k + 1]) = <<QUOTES>>}

ClassDescription(ls) ==
    LET k == Min(DescribedClassLines(ls))
        close == Min({j \in k + 2..Len(ls) : Contains(ls[j], <<QUOTES>>)})
    IN Strip(Join(<<NL>>, [j \in 1..close - k - 2 |-> Strip(ls[k + 1 + j])]))

\* The tokens before the first occurrence of sep: text.split(sep)[0].
SplitHeadSeq(text, sep) ==
    LET j == Find(sep, text, 1)
    IN IF j = 0 THEN text ELSE Slice(text, 1, j - 1)

\* Lines 160-164: the class statement names one of the enum types as its
\* only base.
EnumTypes == {"Enum", "IntEnum", "IntFlag", "Flag"}

IsEnum(line) ==
    \E j \in 2..Len(line) - 3 :
        /\ line[j] = LPAREN /\ line[j + 1] \in EnumTypes
        /\ line[j + 2] = RPAREN /\ line[j + 3] = ":"
        /\ \E i \in 1..j - 1 : line[i] = "class "

\* Lines 617-625: the row of a line of an enum class: what stands before the
\* first " = ", and what stands between the first and the second `#`.
EnumRow(line) ==
    LET s == Strip(line)
        h == Find(<<"#">>, s, 1)
        h2 == Find(<<"#">>, s, h + 1)
        desc == IF h = 0 THEN <<>>
                ELSE Strip(Slice(s, h + 1, IF h2 = 0 THEN Len(s) ELSE h2 - 1))
    IN <<"| ", "'">> \o SplitHeadSeq(s, <<SP, "=", SP>>) \o <<"'", " | ">>
       \o desc \o <<" |", NL>>

\* Lines 604-625: the loop over the lines after the class statement, up to
\* the next line with `class `; began and ended are began_class_desc and
\* end_class_desc.
RECURSIVE EnumRows(_, _, _, _)
EnumRows(ls, k, began, ended) ==
    IF k > Len(ls) THEN <<>>
    ELSE IF Contains(ls[k], <<"class ">>) THEN <<>>
    ELSE IF ls[k] = <<>> THEN EnumRows(ls, k + 1, began, ended)
    ELSE IF Contains(ls[k], <<QUOTES>>) THEN EnumRows(ls, k + 1, TRUE, began)
    ELSE IF ~ended THEN EnumRows(ls, k + 1, began, ended)
    ELSE EnumRow(ls[k]) \o EnumRows(ls, k + 1, began, ended)

\* Lines 595-626: get_enum_values(lines, start_index)
get_enum_values(ls, start_index) ==
    Strip(<<ENUM_HEAD, NL, ENUM_RULE, NL>> \o EnumRows(ls, start_index + 1, FALSE, FALSE))

\* A line of blanks only, the empty line included.
IsBlank(line) == Strip(line) = <<>>

\* The line without the blanks at its start: what [\s]+ leaves of it.
LStrip(line) ==
    LET solid == {j \in 1..Len(line) : line[j] \notin {SP, INDENT}}
    IN IF solid = {} THEN <<>> ELSE Slice(line, Min(solid), Len(line))

\* The first line after place j that is not blank, 0 when there is none
\* before the line at place last is passed.
NextSolid(ls, j, last) ==
    LET c == {v \in j + 1..last : ~IsBlank(ls[v])}
    IN IF c = {} THEN 0 ELSE Min(c)

\* Whether the line can follow the closing quotes of a tag: for a class
\* variable `[\s]+(.*)=`, for a field `[\s]+self\.(.*)`.
TagTail(line, tag) ==
    IF tag = ":class_var" THEN Contains(line, <<"=">>)
    ELSE Len(LStrip(line)) >= 2 /\ LStrip(line)[1] = "self" /\ LStrip(line)[2] = "."

\* Lines 397 and 441: the matches of
\*   """<tag>(((.*)+[\n]+)+?[\s]+)"""\n[\s]+<tail>
\* in the lines from place k to place last, in order.  The lazy group ends
\* at the first line of blanks and a triple quote after which the tail
\* matches; desc is the group, stripped, and decl the line of the tail
\* without the blanks at its start.
RECURSIVE TagMatches(_, _, _, _)
TagMatches(ls, k, last, tag) ==
    IF k > last THEN <<>>
    ELSE LET t == Find(<<QUOTES, tag>>, ls[k], 1)
             closes == {j \in k + 1..last :
                          /\ Len(ls[j]) >= 2 /\ Strip(ls[j]) = <<QUOTES>>
                          /\ ls[j][Len(ls[j])] = QUOTES
                          /\ NextSolid(ls, j, last) # 0
                          /\ TagTail(ls[NextSolid(ls, j, last)], tag)}
             j == Min(closes)
             v == NextSolid(ls, j, last)
         IN IF t = 0 \/ closes = {} THEN TagMatches(ls, k + 1, last, tag)
            ELSE <<[desc |-> Strip(Slice(ls[k], t + 2, Len(ls[k])) \o <<NL>>
                                   \o Join(<<NL>>, [n \in 1..j - k - 1 |-> ls[k + n]])),
                    decl |-> LStrip(ls[v])]>>
                 \o TagMatches(ls, v + 1, last, tag)

\* Lines 390-395: the place of the last line of txt: the line before the
\* first `def __init__` from the class statement on, or the last line.
ClassVariablesEnd(ls, start_index) ==
    LET c == {k \in start_index..Len(ls) : Contains(ls[k], <<"def ">> \o INIT)}
    IN IF c = {} THEN Len(ls) ELSE Min(c) - 1

\* Lines 402-410: the row of a match: the name is what stands before the
\* first colon of the declaration up to its last `=`, the type what stands
\* between the first and the second colon, up to a `=`, stripped.
ClassVariableRow(match) ==
    LET decl == Slice(match.decl, 1, LastOf(match.decl, "=") - 1)
        c == Find(<<":">>, decl, 1)
        rest == Slice(decl, c + 1, Len(decl))
        var_type == IF c = 0 THEN <<>>
                    ELSE Strip(SplitHead(SplitHead(rest, ":"), "="))
    IN <<"| ", "'">> \o SplitHead(decl, ":") \o <<"'", " | ">> \o var_type
       \o <<" | ">> \o match.desc \o <<" |", NL>>

\* Lines 381-411: get_class_variables(lines, start_index)
get_class_variables(ls, start_index) ==
    LET found == TagMatches(ls, start_index, ClassVariablesEnd(ls, start_index),
                            ":class_var")
    IN IF Len(found) = 0 THEN <<>>
       ELSE Strip(<<TABLE3_HEAD, NL, TABLE3_RULE, NL>>
                  \o Flatten([k \in 1..Len(found) |-> ClassVariableRow(found[k])]))

\* Line 445: re.sub(r"(\A *\d+\. *|^ {0,8})", "", field_desc): up to eight
\* blanks are taken from the start of every line.
RECURSIVE Dedent(_, _)
Dedent(text, n) ==
    IF Len(text) = 0 THEN <<>>
    ELSE IF text[1] = NL THEN <<NL>> \o Dedent(Tail(text), 2)
    ELSE IF text[1] = INDENT /\ n > 0 THEN Dedent(Tail(text), n - 1)
    ELSE <<text[1]>> \o Dedent(Tail(text), 0)

\* Lines 432-435: the place of the last line of init_func: the line before
\* the first line with `def ` after the signature, or the last line.
InitFuncEnd(ls, start_index) ==
    LET c == {k \in start_index + 1..Len(ls) : Contains(ls[k], <<"def ">>)}
    IN IF c = {} THEN Len(ls) ELSE Min(c) - 1

\* Lines 447-449: the bullet of a match; the name is what follows `self.` up
\* to a colon or a `=`, stripped.
FieldBullet(match) ==
    <<BULLET, "'">>
    \o Strip(SplitHead(SplitHead(Slice(match.decl, 3, Len(match.decl)), ":"), "="))
    \o <<"'", SP>> \o Dedent(match.desc, 2) \o <<NL, NL>>

\* Lines 413-453: get_fields(lines, start_index), the signature on one line.
get_fields(ls, start_index) ==
    LET found == TagMatches(ls, start_index + 1, InitFuncEnd(ls, start_index), ":field")
    IN Strip(Flatten([k \in 1..Len(found) |-> FieldBullet(found[k])]))

\* Lines 153-158: the import example of a class; the input directory is
\* pkg and the file mod.py.
FROM == "'from "
IMPORT == " import "

ImportExample(class_header) ==
    <<FROM, "pkg">>
    \o (IF class_header \in special_imports THEN <<>> ELSE <<".", "mod">>)
    \o <<IMPORT>> \o class_header \o <<"'">>

\* Lines 151-173: what a class statement adds to the document.
RenderClass(ls, k) ==
    <<H1>> \o ClassHeader(ClassName(ls[k])) \o <<NL, NL>>
    \o ImportExample(ClassHeader(ClassName(ls[k]))) \o <<NL, NL>>
    \o ClassDescription(ls)
    \o (IF IsEnum(ls[k]) THEN <<NL, NL>> \o get_enum_values(ls, k)
        ELSE <<NL, NL, BREAK, NL, NL>>)
    \o (IF Len(get_class_variables(ls, k)) = 0 THEN <<>>
        ELSE <<CLASS_VARIABLES, NL, NL>> \o get_class_variables(ls, k)
             \o <<NL, NL, BREAK, NL, NL>>)

\* Line 175: lines[i].strip().startswith("def ")
IsDef(line) == Len(Strip(line)) > 0 /\ Strip(line)[1] = "def "

\* Line 177: re.search("def _(.*)", line)
IsPrivateDef(line) ==
    \E j \in 1..Len(line) - 1 : line[j] = "def " /\ Underscored(line[j + 1])

\* Lines 178, 180, 488: "__init__" in line
HasInitName(line) == Contains(line, INIT)

\* " ".join(def_str.split()): every run of blanks becomes one blank, none is
\* left at the ends.
RECURSIVE CollapseSpaces(_)
CollapseSpaces(ds) ==
    LET s == Strip(ds)
        j == Find(<<SP, SP>>, s, 1)
    IN IF j = 0 THEN s
       ELSE CollapseSpaces(Slice(s, 1, j) \o Slice(s, j + 2, Len(s)))

\* Lines 486-505: def_str.  For the constructor the greedy group of
\* r"def (.*)\):" and a closing parenthesis; for any other function the two
\* greedy groups of r"def (.*) -> (.*):" around the arrow.
DefStr(line) ==
    LET d == Find(<<"def ">>, line, 1)
        ends == {j \in d + 1..Len(line) - 1 : line[j] = RPAREN /\ line[j + 1] = ":"}
        arrows == {j \in d + 1..Len(line) - 3 :
                      /\ OccursAt(<<SP, "->", SP>>, line, j)
                      /\ \E k \in j + 3..Len(line) : line[k] = ":"}
        arrow == CHOOSE j \in arrows : \A k \in arrows : k <= j
    IN IF HasInitName(line)
       THEN CollapseSpaces(
                Slice(line, d + 1, (CHOOSE j \in ends : \A k \in ends : k <= j) - 1))
            \o <<RPAREN>>
       ELSE CollapseSpaces(Slice(line, d + 1, arrow - 1) \o <<SP, "->", SP>>
                           \o Slice(line, arrow + 3, LastOf(line, ":") - 1))

\* Line 507: def_str.split("(")[0].replace("__", "\\_\\_")
ShortenedDefStr(ds) ==
    LET head == SplitHead(ds, LPAREN)
    IN IF head = INIT THEN <<INIT_NAME>>
       ELSE [j \in 1..Len(head) |-> IF head[j] = "__" THEN "\\_\\_" ELSE head[j]]

\* A return description that stays once it is set.
FirstReturnDescription(acc, line) ==
    IF acc.return_description = <<>> THEN [acc EXCEPT !.return_description = Tail(line)]
    ELSE acc

\* Lines 532-535: return_description = line[8:] or line[7:], the text after
\* the tag; an assignment, so that a later tag overwrites an earlier one.
ReturnDescription(acc, line) == [acc EXCEPT !.return_description = Tail(line)]

\* Lines 511-540: the scan of the lines after the signature, from the first
\* line with a triple quote to the next one.  acc holds parameters (a dict,
\* as a list of name and Parameter), return_description and func_desc.
RECURSIVE ScanDocstring(_, _, _, _, _)
ScanDocstring(ls, k, began_desc, ds, acc) ==
    IF k > Len(ls) THEN acc
    ELSE LET line == Strip(ls[k])
         IN IF Contains(line, <<QUOTES>>)
            THEN IF began_desc THEN acc
                 ELSE ScanDocstring(ls, k + 1, TRUE, ds, acc)
            ELSE IF ~began_desc THEN ScanDocstring(ls, k + 1, began_desc, ds, acc)
            ELSE IF line # <<>> /\ line[1] = ":param "
            THEN LET param_name_ == SplitHead(Tail(line), ":")
                     param_desc == Strip(Replace(line,
                                      <<":param ">> \o param_name_ \o <<":", SP>>, <<>>))
                 IN ScanDocstring(ls, k + 1, began_desc, ds,
                        [acc EXCEPT !.parameters =
                            DictSet(@, param_name_, Parameter(param_name_, param_desc, ds))])
            ELSE IF line = <<>>
            THEN ScanDocstring(ls, k + 1, began_desc, ds,
                               [acc EXCEPT !.func_desc = @ \o <<NL>>])
            ELSE IF line[1] \in {":return:", ":return"}
            THEN ScanDocstring(ls, k + 1, began_desc, ds, ReturnDescription(acc, line))
            ELSE ScanDocstring(ls, k + 1, began_desc, ds,
                               [acc EXCEPT !.func_desc = @ \o line \o <<NL>>])

\* Lines 550-566: the two call examples, the short one without the
\* parameters that have a default.
RECURSIVE ShortCall(_, _)
ShortCall(call, parameters) ==
    IF Len(parameters) = 0 THEN call
    ELSE ShortCall(
            IF Len(parameters[1].body.default_value) # 0 THEN call
            ELSE call \o parameters[1].body.name \o <<",", SP>>,
            Tail(parameters))

RECURSIVE LongCall(_, _)
LongCall(call, parameters) ==
    IF Len(parameters) = 0 THEN call
    ELSE LongCall(
            call \o parameters[1].body.name
            \o (IF Len(parameters[1].body.default_value) # 0
                THEN <<"=">> \o parameters[1].body.default_value ELSE <<>>)
            \o <<",", SP>>,
            Tail(parameters))

\* Lines 561-566: a trailing ", " is cut and the parenthesis closed.
CloseCall(call) ==
    (IF Len(call) >= 2 /\ call[Len(call) - 1] = "," /\ call[Len(call)] = SP
     THEN Slice(call, 1, Len(call) - 2) ELSE call) \o <<RPAREN>>

\* while function[-1] == "\n": function = function[:-1]
RECURSIVE DropTrailingNewlines(_)
DropTrailingNewlines(text) ==
    IF Len(text) > 0 /\ text[Len(text)] = NL
    THEN DropTrailingNewlines(Slice(text, 1, Len(text) - 1))
    ELSE text

\* The value of F at e, e computed once.
With(e, F(_)) == CHOOSE r \in {F(x) : x \in {e}} : TRUE

\* Lines 507-509 and 541-593: the call examples and the block, from the
\* signature (ds) and from what the scan of the docstring found.
FunctionBlock(ls, start_index, cname, ds, scan) ==
    LET shortened_def_str == ShortenedDefStr(ds)
        is_static == Strip(ls[start_index - 1]) = <<"@staticmethod">>
        call == IF is_static THEN cname \o <<".">> \o shortened_def_str \o <<LPAREN>>
                ELSE IF shortened_def_str = <<INIT_NAME>>
                THEN SplitHead(cname, LPAREN) \o <<LPAREN>>
                ELSE <<"self", ".">> \o shortened_def_str \o <<LPAREN>>
        short_call == CloseCall(ShortCall(call, scan.parameters))
        long_call == CloseCall(LongCall(call, scan.parameters))
        head == <<H4>> \o shortened_def_str \o <<NL, NL>>
                \o <<CALL_OPEN>> \o short_call \o <<CALL_CLOSE, NL, NL>>
                \o (IF short_call = long_call THEN <<>>
                    ELSE <<CALL_OPEN>> \o long_call \o <<CALL_CLOSE, NL, NL>>)
                \o (IF is_static THEN <<STATIC_NOTE, NL, NL>> ELSE <<>>)
                \o scan.func_desc
        cut == IF head[Len(head)] = NL THEN Slice(head, 1, Len(head) - 1) ELSE head
        table == IF Len(scan.parameters) = 0 THEN <<>>
                 ELSE <<NL, PARAM_HEAD, NL, TABLE4_RULE, NL>>
                      \o Flatten([k \in 1..Len(scan.parameters) |->
                            LET p == scan.parameters[k].body
                            IN <<"| ">> \o p.name \o <<" | ">> \o p.param_type \o <<" | ">>
                               \o p.default_value \o <<" | ">> \o p.description
                               \o <<" |", NL>>])
                      \o <<NL>>
    IN DropTrailingNewlines(cut \o table)
       \o (IF Len(scan.return_description) = 0 THEN <<>>
           ELSE <<NL, NL, "_Returns:_ ">> \o scan.return_description)

\* Lines 471-593: get_function_documentation(lines, start_index, class_name)
get_function_documentation(ls, start_index, cname) ==
    With(DefStr(ls[start_index]), LAMBDA ds :
        With(ScanDocstring(ls, start_index + 1, FALSE, ds,
                    [parameters |-> <<>>, return_description |-> <<>>, func_desc |-> <<>>]),
             LAMBDA scan : FunctionBlock(ls, start_index, cname, ds, scan)))

(***************************************************************************)
(* The source files of the model: up to MaxClasses class statements, each  *)
(* with or without a description, with the lines of its body (the members  *)
(* of an enum, the tagged class variables) and a list of functions.        *)
(***************************************************************************)
SourceFn(fname, static, params, documented) ==
    [name |-> fname, static |-> static, params |-> params, documented |-> documented,
     returns |-> <<>>, closed |-> TRUE, fields |-> <<>>]

SourceFnLists ==
    { <<>>,
      << SourceFn(INIT, FALSE, <<Param(<<"x">>, <<"int">>, <<"3">>)>>, TRUE),
         SourceFn(<<"st">>, TRUE, <<Param(<<"x">>, <<"int">>, <<>>)>>, TRUE) >>,
      << SourceFn(<<"_", "helper">>, FALSE, <<>>, TRUE),
         SourceFn(<<"go">>, FALSE, <<Param(<<"x">>, <<"int">>, <<>>),
                                     Param(<<"y">>, <<>>, <<"3">>)>>, TRUE) >>,
      << SourceFn(<<"st">>, TRUE, <<>>, FALSE),
         SourceFn(<<"hid">>, FALSE, <<>>, TRUE) >> }

\* A field of a constructor: its name and the lines of its description.
SourceField(fname, desc) == [name |-> fname, desc |-> desc]

\* A constructor that sets two fields, the second described on two lines.
InitWithFields(documented) ==
    [SourceFn(INIT, FALSE, <<>>, documented) EXCEPT
        !.fields = << SourceField("a", <<<<"The a value.">>>>),
                      SourceField("b", << <<"The b value.">>, <<"It continues.">> >>) >>]

\* Function lists with a docstring of several `:return` lines, a docstring
\* that is not closed, a constructor with fields, a constructor after another
\* function, and a constructor with fields and no docstring.
MoreFnLists ==
    { << [SourceFn(<<"go">>, FALSE, <<>>, TRUE) EXCEPT
             !.returns = << <<"The first.">>, <<"The second.">> >>] >>,
      << [SourceFn(<<"go">>, FALSE, <<>>, TRUE) EXCEPT !.closed = FALSE],
         SourceFn(<<"hid">>, FALSE, <<>>, TRUE) >>,
      << InitWithFields(TRUE),
         [SourceFn(<<"go">>, FALSE, <<>>, TRUE) EXCEPT !.returns = << <<"The one.">> >>] >>,
      << SourceFn(<<"go">>, FALSE, <<>>, TRUE),
         SourceFn(INIT, FALSE, <<>>, TRUE) >>,
      << InitWithFields(FALSE) >> }

\* The names of the public classes of a file, by place.
PublicNames == <<"Child", "Other", "Third">>

SourceClass(cname, base, described, body, funcs) ==
    [name |-> cname, base |-> base, described |-> described, body |-> body,
     funcs |-> funcs]

\* The members of an enum class: with and without a comment, with an empty
\* line or a line of blanks between them.
EnumMember(mname, value, comment) ==
    <<INDENT, mname, SP, "=", SP, value>>
    \o (IF Len(comment) = 0 THEN <<>> ELSE <<SP, SP, "#", SP>> \o comment)

EnumBodies ==
    { << EnumMember("RED", "1", <<"warm">>), EnumMember("BLUE", "2", <<>>) >>,
      << EnumMember("RED", "1", <<"warm">>), <<>>, EnumMember("BLUE", "2", <<>>) >>,
      << EnumMember("RED", "1", <<>>), <<INDENT>>, EnumMember("BLUE", "2", <<"cool">>) >> }

\* A tagged class variable: the tag, the description, the declaration.
TaggedClassVariable(vname, annotation) ==
    << <<INDENT, QUOTES, ":class_var">>,
       <<INDENT, "The ", vname, " value.">>,
       <<INDENT, QUOTES>>,
       <<INDENT, vname>>
       \o (IF Len(annotation) = 0 THEN <<>> ELSE <<":", SP>> \o annotation)
       \o <<SP, "=", SP, "0">> >>

ClassVariableBodies ==
    { TaggedClassVariable("A", <<"int">>) \o TaggedClassVariable("B", <<>>) }

\* The class statements possible at the k-th place: a public class without
\* and with a base class, and a class named with a leading underscore; at the
\* first place also a class with the further function lists, an enum class,
\* a class with class variables and a class without description; at the
\* later places one of each of these.
SourceClassesAt(k) ==
    { SourceClass(<<PublicNames[k]>>, b, TRUE, <<>>, fs) :
          b \in {<<>>, <<"Base">>}, fs \in SourceFnLists }
    \cup { SourceClass(<<"_", "Hidden">>, <<>>, TRUE, <<>>, fs) : fs \in SourceFnLists }
    \cup { SourceClass(<<PublicNames[k]>>, <<"Enum">>, TRUE, body, <<>>) :
              body \in (IF k = 1 THEN EnumBodies
                        ELSE {<<EnumMember("RED", "1", <<"warm">>)>>}) }
    \cup { SourceClass(<<PublicNames[k]>>, <<>>, TRUE, body, <<InitWithFields(TRUE)>>) :
              body \in ClassVariableBodies }
    \cup (IF k # 1 THEN {}
          ELSE { SourceClass(<<PublicNames[k]>>, <<>>, TRUE, <<>>, fs) : fs \in MoreFnLists }
               \cup { SourceClass(<<PublicNames[k]>>, <<"Enum">>, TRUE, body,
                                  <<SourceFn(<<"go">>, FALSE, <<>>, TRUE)>>) :
                         body \in {<<EnumMember("RED", "1", <<"warm">>)>>} }
               \cup { SourceClass(<<PublicNames[k]>>, <<>>, TRUE, body, <<>>) :
                         body \in ClassVariableBodies }
               \cup { SourceClass(<<PublicNames[k]>>, <<>>, FALSE, <<>>, fs) :
                         fs \in {<<>>, <<SourceFn(<<"go">>, FALSE, <<>>, TRUE)>>} })

SourceFiles(n) ==
    { cs \in [1..n -> UNION {SourceClassesAt(k) : k \in 1..n}] :
        \A k \in 1..n : cs[k] \in SourceClassesAt(k) }

\* The lines of a field of the constructor: the tag, the description, the
\* assignment.
FieldLines(fd) ==
    << <<INDENT, INDENT, QUOTES, ":field">> >>
    \o [k \in 1..Len(fd.desc) |-> <<INDENT, INDENT>> \o fd.desc[k]]
    \o << <<INDENT, INDENT, QUOTES>>,
          <<INDENT, INDENT, "self", ".", fd.name, ":", SP, "int", SP, "=", SP, "0">> >>

\* The lines of a function: the decorator, the signature, the docstring (the
\* description, a blank line and a tag for every parameter, the return
\* tags), the fields and the body.
FnLines(f) ==
    (IF f.static THEN <<<<INDENT, "@staticmethod">>>> ELSE <<>>)
    \o << <<INDENT, "def ">> \o f.name \o <<LPAREN>>
          \o (IF f.static THEN <<>>
              ELSE <<"self">> \o (IF Len(f.params) = 0 THEN <<>> ELSE <<",", SP>>))
          \o RenderParams(f.params) \o <<RPAREN>>
          \o (IF f.name = INIT THEN <<>> ELSE <<SP, "->", SP, "None">>) \o <<":">> >>
    \o (IF ~f.documented THEN <<>>
        ELSE << <<INDENT, INDENT, QUOTES>>,
                <<INDENT, INDENT, "About ">> \o f.name >>
             \o (IF Len(f.params) = 0 THEN <<>> ELSE << <<>> >>)
             \o [k \in 1..Len(f.params) |->
                    <<INDENT, INDENT, ":param ">> \o f.params[k].name \o <<":", SP, "X.">>]
             \o [k \in 1..Len(f.returns) |->
                    <<INDENT, INDENT, ":return:", SP>> \o f.returns[k]]
             \o (IF f.closed THEN << <<INDENT, INDENT, QUOTES>> >> ELSE <<>>))
    \o Flatten([k \in 1..Len(f.fields) |-> FieldLines(f.fields[k])])
    \o << <<INDENT, INDENT, "pass">>, <<>> >>

ClassLines(c) ==
    << <<"class ">> \o ClassStatementName(c) \o <<":">> >>
    \o (IF c.described
        THEN << <<INDENT, QUOTES>>,
                <<INDENT, "Description of ">> \o c.name,
                <<INDENT, QUOTES>> >>
        ELSE <<>>)
    \o << <<>> >>
    \o c.body
    \o (IF Len(c.body) = 0 THEN <<>> ELSE << <<>> >>)
    \o Flatten([k \in 1..Len(c.funcs) |-> FnLines(c.funcs[k])])
    \o << <<>> >>

RenderSource(cs) == Flatten([k \in 1..Len(cs) |-> ClassLines(cs[k])])

(***************************************************************************)
(* The metadata: for every configured class its categories in the order of *)
(* the file, each with a name, a description and the names of its          *)
(* functions.  A dict is a sequence of its items in insertion order.       *)
(***************************************************************************)
H3 == "### "

Category(cname, description, functions) ==
    [name |-> cname, description |-> description, functions |-> functions]

\* class_name in self.metadata
HasClass(md, cname) == \E k \in 1..Len(md) : md[k].class = cname

\* self.metadata[class_name]
CategoriesOf(md, cname) == md[CHOOSE k \in 1..Len(md) : md[k].class = cname].categories

\* Line 189: the name after "#### " up to the end of its line, every "\_"
\* written back as "_".
FunctionNameOf(block) ==
    LET line == Slice(block, 2, Min({j \in 2..Len(block) + 1 :
                                       j = Len(block) + 1 \/ block[j] = NL}) - 1)
    IN IF line = <<INIT_NAME>> THEN INIT ELSE line

\* Lines 192-197: the first category that lists the function, "" when the
\* class is not configured or no category lists it.
FunctionCategory(md, cname, fname) ==
    IF ~HasClass(md, cname) THEN ""
    ELSE LET cats == CategoriesOf(md, cname)
             c == {k \in 1..Len(cats) :
                     \E j \in 1..Len(cats[k].functions) : cats[k].functions[j] = fname}
         IN IF c = {} THEN "" ELSE cats[Min(c)].name

\* category in functions_by_categories, functions_by_categories[category]
HasCategory(fbc, cat) == \E k \in 1..Len(fbc) : fbc[k].category = cat
BlocksOf(fbc, cat) == fbc[CHOOSE k \in 1..Len(fbc) : fbc[k].category = cat].blocks

\* Lines 202-206: the block is set aside under its category.
SetAside(fbc, cat, block) ==
    IF HasCategory(fbc, cat)
    THEN [k \in 1..Len(fbc) |->
            IF fbc[k].category = cat
            THEN [fbc[k] EXCEPT !.blocks = Append(@, block)] ELSE fbc[k]]
    ELSE Append(fbc, [category |-> cat, blocks |-> <<block>>])

\* Lines 57-61 of doc_base.py and 212-217 of py_md_doc.py: the heading of a
\* category and its description; the constructor has none.  The re.sub of
\* the description puts back what it matched.
CategoryHeading(cat) ==
    IF cat.name = "Constructor" THEN <<>>
    ELSE <<H3, cat.name, NL, NL>>
         \o (IF cat.description = <<>> THEN <<>> ELSE cat.description \o <<NL, NL>>)

\* Lines 207-220: the categories of the last class, in the order of the
\* file, each with the blocks set aside for it and a section break.
RECURSIVE CategoriesPass(_, _, _)
CategoriesPass(cats, fbc, k) ==
    IF k > Len(cats) THEN <<>>
    ELSE IF cats[k].name = "Ignore" THEN CategoriesPass(cats, fbc, k + 1)
    ELSE CategoryHeading(cats[k]) \o Flatten(BlocksOf(fbc, cats[k].name))
         \o <<BREAK, NL, NL>> \o CategoriesPass(cats, fbc, k + 1)

\* Line 218: functions_by_categories[category] raises KeyError for a category
\* none of whose functions was met.
CategoriesPassRaises(cats, fbc) ==
    \E k \in 1..Len(cats) : cats[k].name # "Ignore" /\ ~HasCategory(fbc, cats[k].name)

(***************************************************************************)
(* DocBase.sort_by_metadata(class_name, doc)                               *)
(***************************************************************************)
\* Line 44 of doc_base.py: every text from a "#### " up to the next "####"
\* or the end of the document.
RECURSIVE FunctionTexts(_, _)
FunctionTexts(doc, from) ==
    LET starts == {j \in from..Len(doc) : doc[j] = H4}
    IN IF starts = {} THEN <<>>
       ELSE LET s == Min(starts)
                nexts == {j \in s + 1..Len(doc) : doc[j] = H4}
                e == IF nexts = {} THEN Len(doc) ELSE Min(nexts) - 1
            IN <<Slice(doc, s, e)>> \o FunctionTexts(doc, e + 1)

\* str.replace(old, ""): every occurrence of old, left to right.
RECURSIVE Remove(_, _, _)
Remove(text, old, from) ==
    LET i == Find(old, text, from)
    IN IF i = 0 \/ Len(old) = 0 THEN text
       ELSE Remove(Slice(text, 1, i - 1) \o Slice(text, i + Len(old), Len(text)), old, i)

\* Lines 47-48: the function texts are taken out of the document, in turn.
RECURSIVE RemoveAll(_, _, _)
RemoveAll(doc, texts, k) ==
    IF k > Len(texts) THEN doc ELSE RemoveAll(Remove(doc, texts[k], 1), texts, k + 1)

\* Line 49: the dict of the texts by the name in their heading; of two texts
\* with one name the later one stays.
HeadingName(ftext) ==
    Slice(ftext, 2, Min({j \in 2..Len(ftext) + 1 :
                           j = Len(ftext) + 1 \/ ftext[j] = NL}) - 1)
HasFunction(texts, key) == \E k \in 1..Len(texts) : HeadingName(texts[k]) = key
TextOfFunction(texts, key) ==
    texts[CHOOSE k \in 1..Len(texts) :
            /\ HeadingName(texts[k]) = key
            /\ \A j \in k + 1..Len(texts) : HeadingName(texts[j]) # key]

\* Lines 63-66: the key of a function name.
FunctionKey(fname) == IF fname = INIT THEN <<INIT_NAME>> ELSE fname

\* Lines 62-70: the texts of the functions of a category, two newlines when
\* the document does not end with them, and the section break.
RECURSIVE CategoryFunctions(_, _, _)
CategoryFunctions(texts, functions, k) ==
    IF k > Len(functions) THEN <<>>
    ELSE TextOfFunction(texts, FunctionKey(functions[k]))
         \o CategoryFunctions(texts, functions, k + 1)

EndsWithTwoNewlines(text) ==
    Len(text) >= 2 /\ text[Len(text)] = NL /\ text[Len(text) - 1] = NL

RECURSIVE SortCategories(_, _, _, _)
SortCategories(doc, cats, texts, k) ==
    IF k > Len(cats) THEN doc
    ELSE IF cats[k].name = "Ignore" THEN SortCategories(doc, cats, texts, k + 1)
    ELSE LET body == doc \o CategoryHeading(cats[k])
                     \o CategoryFunctions(texts, cats[k].functions, 1)
         IN SortCategories(body \o (IF EndsWithTwoNewlines(body) THEN <<>> ELSE <<NL, NL>>)
                                \o <<BREAK, NL, NL>>,
                           cats, texts, k + 1)

\* Lines 52 and 67: self.metadata[class_name] and functions[key] raise
\* KeyError for a class or a function that is not there.
SortRaises(md, cname, doc) ==
    \/ ~HasClass(md, cname)
    \/ LET cats == CategoriesOf(md, cname)
       IN \E k \in 1..Len(cats) :
            /\ cats[k].name # "Ignore"
            /\ \E j \in 1..Len(cats[k].functions) :
                  ~HasFunction(FunctionTexts(doc, 1), FunctionKey(cats[k].functions[j]))

sort_by_metadata(md, cname, doc) ==
    With(FunctionTexts(doc, 1), LAMBDA texts :
        SortCategories(Strip(RemoveAll(doc, texts, 1)) \o <<NL, NL>>,
                       CategoriesOf(md, cname), texts, 1))

(***************************************************************************)
(* The run of get_doc: one step for every line of the file.                *)
(***************************************************************************)
InitDoc ==
    /\ \E n \in 1..MaxClasses : source \in SourceFiles(n)
    /\ src_lines = RenderSource(source)
    /\ idx = 1
    /\ document = <<>>
    /\ class_name = <<>>
    /\ looking_for_class = TRUE
    /\ MetaIdle
    /\ pc = "lines"
    /\ MergeIdle /\ DirIdle /\ ParamIdle

AtLine == pc = "lines" /\ idx <= Len(src_lines)

\* Lines 139-173: the statement of a class that is not private.
ClassLine ==
    /\ AtLine
    /\ Len(src_lines[idx]) > 0 /\ src_lines[idx][1] = "class "
    /\ ~IsPrivateClass(src_lines[idx])
    /\ IF DescribedClassLines(src_lines) = {}
       THEN \* line 467: re.search finds nothing, .group(3) raises AttributeError
            /\ pc' = "raised"
            /\ UNCHANGED <<document, class_name, looking_for_class, idx,
                           functions_by_categories>>
       ELSE /\ looking_for_class' = FALSE
            /\ class_name' = ClassName(src_lines[idx])
            /\ functions_by_categories' = <<>>
            /\ document' = document \o RenderClass(src_lines, idx)
            /\ idx' = idx + 1
            /\ pc' = pc
    /\ UNCHANGED <<source, src_lines, metadata, warnings, import_prefix, special_imports,
                   sort_metadata, sorted_doc, mergeVars, dirVars, paramVars, sigVars>>

\* Lines 139-143: the statement of a private class is passed over.
PrivateClassLine ==
    /\ AtLine
    /\ Len(src_lines[idx]) > 0 /\ src_lines[idx][1] = "class "
    /\ IsPrivateClass(src_lines[idx])
    /\ idx' = idx + 1
    /\ UNCHANGED <<source, src_lines, document, class_name, looking_for_class, pc,
                   metaVars, mergeVars, dirVars, paramVars, sigVars>>

\* Lines 175-206: a function is rendered; the constructor opens the
\* Functions section.
FunctionLine ==
    /\ AtLine
    /\ ~(Len(src_lines[idx]) > 0 /\ src_lines[idx][1] = "class ")
    /\ IsDef(src_lines[idx]) /\ ~looking_for_class
    /\ ~(IsPrivateDef(src_lines[idx]) /\ ~HasInitName(src_lines[idx]))
    /\ \E function_documentation \in
            {get_function_documentation(src_lines, idx, class_name) \o <<NL, NL>>} :
       \E function_name \in {FunctionNameOf(function_documentation)} :
       \E function_category \in {FunctionCategory(metadata, class_name, function_name)} :
          /\ document' = document
                   \o (IF ~HasInitName(src_lines[idx]) THEN <<>>
                       ELSE IF Len(get_fields(src_lines, idx)) = 0
                       THEN <<FUNCTIONS, NL, NL>>
                       ELSE <<FIELDS, NL, NL>> \o get_fields(src_lines, idx)
                            \o <<NL, NL, BREAK, NL, NL, FUNCTIONS, NL, NL>>)
                   \o (IF function_category = "" THEN function_documentation ELSE <<>>)
          /\ warnings' =
                IF HasClass(metadata, class_name) /\ function_category = ""
                THEN Append(warnings, [class |-> class_name, function |-> function_name])
                ELSE warnings
          /\ functions_by_categories' =
                IF function_category = "" THEN functions_by_categories
                ELSE SetAside(functions_by_categories, function_category,
                              function_documentation)
    /\ idx' = idx + 1
    /\ UNCHANGED <<source, src_lines, class_name, looking_for_class, pc, metadata,
                   import_prefix, special_imports, sort_metadata, sorted_doc,
                   mergeVars, dirVars, paramVars, sigVars>>

\* Lines 175-179: a private function is passed over.
PrivateFunctionLine ==
    /\ AtLine
    /\ ~(Len(src_lines[idx]) > 0 /\ src_lines[idx][1] = "class ")
    /\ IsDef(src_lines[idx]) /\ ~looking_for_class
    /\ IsPrivateDef(src_lines[idx]) /\ ~HasInitName(src_lines[idx])
    /\ idx' = idx + 1
    /\ UNCHANGED <<source, src_lines, document, class_name, looking_for_class, pc,
                   metaVars, mergeVars, dirVars, paramVars, sigVars>>

\* Any other line, a function met before the first public class included.
OtherLine ==
    /\ AtLine
    /\ ~(Len(src_lines[idx]) > 0 /\ src_lines[idx][1] = "class ")
    /\ ~(IsDef(src_lines[idx]) /\ ~looking_for_class)
    /\ idx' = idx + 1
    /\ UNCHANGED <<source, src_lines, document, class_name, looking_for_class, pc,
                   metaVars, mergeVars, dirVars, paramVars, sigVars>>

\* Lines 698-710: _get_doc_with_import_prefix(doc, import_prefix).  The
\* pattern r"(`from (.*?)\.)(.*)$" matches once in a line, from the first
\* "`from " that a dot follows in the line, through the first such dot, to
\* the end of the line; the text through the dot gives way to a backquote,
\* the prefix and a dot.  An import prefix of None is <<>>.
\* A rewriting that takes the whole dotted path, through its last dot.
PrefixedWholePath(line, prefix) ==
    LET i == Find(<<FROM>>, line, 1)
        dots == {j \in i + 1..Len(line) : line[j] = "."}
    IN IF i = 0 \/ dots = {} THEN line
       ELSE Slice(line, 1, i - 1) \o <<"'">> \o prefix
            \o Slice(line, (CHOOSE j \in dots : \A d \in dots : d <= j) + 1, Len(line))

PrefixedLine(line, prefix) ==
    LET i == Find(<<FROM>>, line, 1)
        dots == {j \in i + 1..Len(line) : line[j] = "."}
    IN IF i = 0 \/ dots = {} THEN line
       ELSE Slice(line, 1, i - 1) \o <<"'">> \o prefix \o <<".">>
            \o Slice(line, Min(dots) + 1, Len(line))

get_doc_with_import_prefix(doc, prefix) ==
    IF prefix = <<>> THEN doc
    ELSE With(SplitLines(doc), LAMBDA lines :
            Join(<<NL>>, [k \in 1..Len(lines) |-> PrefixedLine(lines[k], prefix)]))

\* Lines 207-225: the end of the loop.  The categories of the class last
\* met are written when it is configured; without `[TOC]` marker the table
\* of contents changes nothing; the import prefix is put in.
ReturnDoc ==
    /\ pc = "lines" /\ idx > Len(src_lines)
    /\ ~Contains(document, <<"[TOC]">>)
    /\ IF ~HasClass(metadata, class_name)
       THEN /\ pc' = "document"
            /\ document' = get_doc_with_import_prefix(document, import_prefix)
       ELSE IF CategoriesPassRaises(CategoriesOf(metadata, class_name),
                                    functions_by_categories)
       THEN pc' = "raised" /\ UNCHANGED document
       ELSE /\ pc' = "document"
            /\ document' = get_doc_with_import_prefix(
                    document \o CategoriesPass(CategoriesOf(metadata, class_name),
                                               functions_by_categories, 1),
                    import_prefix)
    /\ UNCHANGED <<source, src_lines, idx, class_name, looking_for_class, metaVars,
                   mergeVars, dirVars, paramVars, sigVars>>

NextDoc ==
    \/ ClassLine \/ PrivateClassLine \/ FunctionLine \/ PrivateFunctionLine
    \/ OtherLine \/ ReturnDoc

SpecDoc == InitDoc /\ [][NextDoc]_vars

(***************************************************************************)
(* The two pathways of the categories: get_doc of a PyMdDoc with metadata, *)
(* and sort_by_metadata of a DocBase with the same metadata on the         *)
(* document that get_doc of a PyMdDoc without metadata returned.  The      *)
(* class is Child, with or without a base class, with a constructor, the   *)
(* functions go and st and the private _helper, alone in its file or       *)
(* before a private class.  Every function a category lists is a function  *)
(* of the class.                                                           *)
(***************************************************************************)
MaxCategories == 3
MaxDeclarations == 2

MetaFunctions ==
    << SourceFn(INIT, FALSE, <<>>, TRUE),
       SourceFn(<<"go">>, FALSE, <<>>, TRUE),
       SourceFn(<<"st">>, TRUE, <<>>, TRUE),
       SourceFn(<<"_", "helper">>, FALSE, <<>>, TRUE) >>

MetaSources ==
    { <<SourceClass(<<"Child">>, b, TRUE, <<>>, MetaFunctions)>> \o tail :
        b \in {<<>>, <<"Base">>},
        tail \in {<<>>, <<SourceClass(<<"_", "Hidden">>, <<>>, TRUE, <<>>, <<>>)>>} }

CategoryPool ==
    { Category("Constructor", <<>>, <<INIT>>),
      Category("Moving", <<"Ways to move.">>, <<<<"go">>>>),
      Category("Moving", <<>>, <<<<"go">>>>),
      Category("Moving", <<>>, <<<<"go">>, <<"st">>>>),
      Category("Moving", <<"Ways to move.">>, <<<<"st">>, <<"go">>>>),
      Category("Static", <<>>, <<<<"st">>>>),
      Category("Ignore", <<>>, <<<<"st">>>>),
      Category("Ignore", <<>>, <<<<"go">>>>),
      Category("Ignore", <<>>, <<INIT>>) }

Listed(cat) == {cat.functions[j] : j \in 1..Len(cat.functions)}

\* The configurations of the class: categories of different names, no
\* function listed twice.
Configurations ==
    { cfg \in UNION {[1..n -> CategoryPool] : n \in 1..MaxCategories} :
        \A j, k \in 1..Len(cfg) :
            j # k => cfg[j].name # cfg[k].name /\ Listed(cfg[j]) \cap Listed(cfg[k]) = {} }

InitMeta ==
    /\ source \in MetaSources
    /\ src_lines = RenderSource(source)
    /\ idx = 1
    /\ document = <<>>
    /\ class_name = <<>>
    /\ looking_for_class = TRUE
    /\ functions_by_categories = <<>>
    /\ warnings = <<>>
    /\ import_prefix = <<>>
    /\ special_imports = {}
    /\ sorted_doc = <<>>
    /\ \E cfg \in Configurations :
          \/ /\ metadata = <<[class |-> <<"Child">>, categories |-> cfg]>>
             /\ sort_metadata = <<>>
          \/ /\ metadata = <<>>
             /\ sort_metadata = <<[class |-> <<"Child">>, categories |-> cfg]>>
    /\ pc = "lines"
    /\ MergeIdle /\ DirIdle /\ ParamIdle

\* sort_by_metadata(class_name, doc) on the document returned, with the name
\* of the documented class.
SortByMetadata ==
    /\ pc = "document" /\ sort_metadata # <<>>
    /\ IF SortRaises(sort_metadata, ClassHeader(class_name), document)
       THEN pc' = "sort raised" /\ UNCHANGED sorted_doc
       ELSE /\ pc' = "sorted"
            /\ sorted_doc' = sort_by_metadata(sort_metadata, ClassHeader(class_name),
                                              document)
    /\ UNCHANGED <<source, src_lines, idx, document, class_name, looking_for_class,
                   metadata, functions_by_categories, warnings, import_prefix,
                   special_imports, sort_metadata, mergeVars, dirVars, paramVars, sigVars>>

NextMeta == NextDoc \/ SortByMetadata

SpecMeta == InitMeta /\ [][NextMeta]_vars

(***************************************************************************)
(* get_doc with an import prefix, for a class that __init__.py imports or  *)
(* does not import.                                                        *)
(***************************************************************************)
ImportPrefixes == {<<>>, <<"from ", "a">>, <<"from ", "a", ".", "b">>}

InitImport ==
    /\ source \in MetaSources
    /\ src_lines = RenderSource(source)
    /\ idx = 1
    /\ document = <<>>
    /\ class_name = <<>>
    /\ looking_for_class = TRUE
    /\ metadata = <<>> /\ functions_by_categories = <<>> /\ warnings = <<>>
    /\ sort_metadata = <<>> /\ sorted_doc = <<>>
    /\ import_prefix \in ImportPrefixes
    /\ special_imports \in {{}, {<<"Child">>}}
    /\ pc = "lines"
    /\ MergeIdle /\ DirIdle /\ ParamIdle

SpecImport == InitImport /\ [][NextDoc]_vars

(***************************************************************************)
(* The signature of a declaration, reconstructed from the lines of the     *)
(* file by get_function_documentation (lines 486-505) and by get_fields    *)
(* (lines 424-430): the line of the declaration, and the following lines   *)
(* one by one until the pattern of the closing matches.  The lines are     *)
(* those of file_txt.split("\n"), so they hold no newline and the greedy   *)
(* groups of the patterns run across the lines put together.               *)
(***************************************************************************)
\* re.search(r"def (.*)\):", txt): `def `, and after it `):`.
ClosesConstructor(t) ==
    \E i \in 1..Len(t) :
        /\ t[i] = "def "
        /\ \E j \in i + 1..Len(t) - 1 : t[j] = RPAREN /\ t[j + 1] = ":"

\* re.search(r"def (.*) -> (.*):", txt): `def `, after it ` -> `, and after
\* that a colon.
ClosesFunction(t) ==
    \E i \in 1..Len(t) :
        /\ t[i] = "def "
        /\ \E j \in i + 1..Len(t) - 3 :
              /\ OccursAt(<<SP, "->", SP>>, t, j)
              /\ \E k \in j + 3..Len(t) : t[k] = ":"

\* Lines 425, 428, 489, 493, 497, 501: get_fields looks for the closing of a
\* constructor; get_function_documentation for that of a constructor when
\* the line of the declaration holds "__init__", else for the return type.
SignatureMatches(t) ==
    IF caller = "get_fields" \/ HasInitName(src_lines[idx]) THEN ClosesConstructor(t)
    ELSE ClosesFunction(t)

\* Lines 427, 492, 500: the line added to the signature; get_fields strips it.
AddedLine(line) == IF caller = "get_fields" THEN Strip(line) ELSE line

\* The declarations of the files: a constructor or a function, written on
\* one line or on two, with or without return annotation.
DeclarationNames(k) == IF k = 1 THEN {INIT, <<"go">>} ELSE {<<"st">>}

DeclarationLines(d) ==
    LET closing == <<RPAREN>> \o (IF d.annotated THEN <<SP, "->", SP, "None">> ELSE <<>>)
                   \o <<":">>
    IN (IF d.split
        THEN << <<INDENT, "def ">> \o d.name \o <<LPAREN, "self", ",">>,
                <<INDENT, INDENT, INDENT, "x", ":", SP, "int">> \o closing >>
        ELSE << <<INDENT, "def ">> \o d.name \o <<LPAREN, "self", ",", SP, "x", ":", SP, "int">>
                \o closing >>)
       \o << <<INDENT, INDENT, "pass">>, <<>> >>

DeclarationFiles ==
    UNION { { ds \in [1..n -> [name : UNION {DeclarationNames(k) : k \in 1..n},
                               split : BOOLEAN, annotated : BOOLEAN]] :
                \A k \in 1..n : ds[k].name \in DeclarationNames(k) } :
            n \in 1..MaxDeclarations }

RenderDeclarations(ds) ==
    << <<"class ", "Child", ":">> >>
    \o Flatten([k \in 1..Len(ds) |-> DeclarationLines(ds[k])])

\* get_doc calls get_function_documentation at every declaration (line 188)
\* and get_fields at the declarations of a constructor (lines 180-181).
InitSignature ==
    /\ \E ds \in DeclarationFiles : src_lines = RenderDeclarations(ds)
    /\ idx \in {k \in 1..Len(src_lines) : IsDef(src_lines[k])}
    /\ caller \in {"get_function_documentation"}
                  \cup (IF HasInitName(src_lines[idx]) THEN {"get_fields"} ELSE {})
    /\ txt = <<>> /\ count = 0
    /\ source = <<>> /\ document = <<>> /\ class_name = <<>> /\ looking_for_class = TRUE
    /\ MetaIdle
    /\ signature = <<>> /\ def_str = <<>> /\ param_name = <<>> /\ parameter = <<>>
    /\ pc = "def"
    /\ MergeIdle /\ DirIdle

\* Lines 424-426 and 486-490, 497-498: the line of the declaration and the
\* first search.
FirstLine ==
    /\ pc = "def"
    /\ txt' = src_lines[idx]
    /\ count' = 1
    /\ pc' = IF SignatureMatches(src_lines[idx]) THEN "matched" ELSE "while"
    /\ UNCHANGED <<caller, mergeVars, dirVars, docVars, signature, def_str, param_name,
                   parameter>>

\* Lines 427-430, 491-494 and 499-502, one turn of the loop: the next line
\* lines[start_index + count], which raises IndexError past the last line,
\* is added and the search run again.
NextLine ==
    /\ pc = "while"
    /\ IF idx + count > Len(src_lines)
       THEN /\ raised' = "IndexError"
            /\ pc' = "raised"
            /\ UNCHANGED <<txt, count>>
       ELSE /\ txt' = txt \o AddedLine(src_lines[idx + count])
            /\ count' = count + 1
            /\ pc' = IF SignatureMatches(txt \o AddedLine(src_lines[idx + count]))
                     THEN "matched" ELSE "while"
            /\ raised' = raised
    /\ UNCHANGED <<caller, mergeVars, hierarchy, in_dir, md_files, todo, visited,
                   input_directory, output_directory, nameVars, docVars, signature, def_str,
                   param_name, parameter>>

NextSignature == FirstLine \/ NextLine

SpecSignature == InitSignature /\ [][NextSignature]_vars

(***************************************************************************)
(* ClassInheritance.get_from_directory and get_from_type.  The classes of  *)
(* the directory form one chain: hierarchy[1] derives from hierarchy[2]    *)
(* and so on, so that t.__mro__ of hierarchy[k] is hierarchy[k], ...,      *)
(* hierarchy[n], object (object has no document).  Every class is in a     *)
(* file named after it, as the function assumes; in_dir holds the places   *)
(* of the classes whose file the two loops of get_from_directory accept    *)
(* (the others are outside the directory or excluded).  md_files is the    *)
(* output directory: the document of each class, NoFile when there is no   *)
(* such file.                                                              *)
(***************************************************************************)
NoFile == <<"no file">>

\* Lines 93-101 with `continue` for `break`: a walk that would pass over a
\* missing document.
RECURSIVE ParentTextsSkipping(_, _)
ParentTextsSkipping(k, files) ==
    IF k > Len(files) THEN <<>>
    ELSE IF files[k] = NoFile THEN ParentTextsSkipping(k + 1, files)
    ELSE <<files[k]>> \o ParentTextsSkipping(k + 1, files)

\* Lines 93-101: the documents of the classes from the k-th place of the
\* hierarchy on, up to the first that has no file.
RECURSIVE ParentTexts(_, _)
ParentTexts(k, files) ==
    IF k > Len(files) THEN <<>>
    ELSE IF files[k] = NoFile THEN <<>>
    ELSE <<files[k]>> \o ParentTexts(k + 1, files)

\* The classes at the places of the hierarchy.
DirClasses(level) ==
    { Class(level, <<Rows[1]>>, "doc", <<Field(ClassNames[level])>>,
            <<Fn("go", TRUE, FALSE)>>),
      Class(level, <<>>, "none", <<>>, <<Fn("do", TRUE, FALSE)>>) }

Hierarchies(n) ==
    { h \in [1..n -> UNION {DirClasses(k) : k \in 1..n}] :
        \A k \in 1..n : h[k] \in DirClasses(k) }

InitDir ==
    /\ \E n \in 1..MaxParents + 1 : hierarchy \in Hierarchies(n)
    /\ in_dir \in (SUBSET (1..Len(hierarchy))) \ {{}}
    /\ md_files = [k \in 1..Len(hierarchy) |-> NoFile]
    /\ todo = in_dir
    /\ visited = 0
    /\ input_directory = "Path" /\ output_directory = "Path" /\ raised = ""
    /\ child_text = <<>> /\ parent_texts = <<>> /\ merged = <<>>
    /\ pc = "arguments"
    /\ NameIdle /\ DocIdle /\ ParamIdle

\* Lines 33-46: the two tests of the argument types, each raising TypeError
\* for what is neither Path nor str, and the first use of the input
\* directory, input_directory.iterdir(), a method that str has not.
CheckDirectories ==
    /\ pc = "arguments"
    /\ IF input_directory \notin {"Path", "str"} \/ output_directory \notin {"Path", "str"}
       THEN raised' = "TypeError" /\ pc' = "raised"
       ELSE IF input_directory = "str"
       THEN raised' = "AttributeError" /\ pc' = "raised"
       ELSE raised' = raised /\ pc' = "docs"
    /\ UNCHANGED <<hierarchy, in_dir, md_files, todo, visited, input_directory,
                   output_directory, nameVars, mergeVars, docVars, paramVars, sigVars>>

\* Lines 46-52: PyMdDoc(...).get_docs(output_directory) writes the document
\* of every accepted file.
GetDocs ==
    /\ pc = "docs"
    /\ md_files' = [k \in 1..Len(hierarchy) |->
                       IF k \in in_dir THEN RenderDoc(hierarchy[k]) ELSE md_files[k]]
    /\ pc' = "inherit"
    /\ UNCHANGED <<hierarchy, in_dir, todo, visited, argVars, nameVars, mergeVars, docVars,
                   paramVars, sigVars>>

\* Lines 54-63, one turn of the loop, the files in the order iterdir gives
\* them (any order): get_from_type (lines 88-102) reads the document of the
\* class and those of its ancestors from the output directory, and the
\* merged document is written over the document of the class.
InheritFile(k) ==
    /\ pc = "inherit"
    /\ k \in todo
    /\ visited' = k
    /\ child_text' = md_files[k]
    /\ parent_texts' = ParentTexts(k + 1, md_files)
    /\ merged' = get_from_text(md_files[k], ParentTexts(k + 1, md_files))
    /\ md_files' = [md_files EXCEPT ![k] = get_from_text(md_files[k],
                                                         ParentTexts(k + 1, md_files))]
    /\ todo' = todo \ {k}
    /\ UNCHANGED <<hierarchy, in_dir, pc, argVars, nameVars, docVars, paramVars, sigVars>>

NextDir == CheckDirectories \/ GetDocs \/ \E k \in 1..MaxParents + 1 : InheritFile(k)

SpecDir == InitDir /\ [][NextDir]_vars

\* get_from_directory with arguments of every type: a Path, a str, and an
\* int for the types that are neither.
DirectoryTypes == {"Path", "str", "int"}

InitArguments ==
    /\ \E n \in 1..MaxParents + 1 : hierarchy \in Hierarchies(n)
    /\ in_dir \in (SUBSET (1..Len(hierarchy))) \ {{}}
    /\ md_files = [k \in 1..Len(hierarchy) |-> NoFile]
    /\ todo = in_dir
    /\ visited = 0
    /\ input_directory \in DirectoryTypes /\ output_directory \in DirectoryTypes
    /\ raised = ""
    /\ child_text = <<>> /\ parent_texts = <<>> /\ merged = <<>>
    /\ pc = "arguments"
    /\ NameIdle /\ DocIdle /\ ParamIdle

SpecArguments == InitArguments /\ [][NextDir]_vars

(***************************************************************************)
(* The names get_from_directory and get_from_type go by.  A name is the    *)
(* sequence of its characters.  modules is the input directory: each file  *)
(* with its stem (the file name without ".py") and the name of the class   *)
(* it defines; the class of modules[k] derives from the class of           *)
(* modules[k + 1], which the file of modules[k] imports.  get_docs has     *)
(* written for every file the document <stem>.md.  overrides is a set of   *)
(* pairs <<key, value>>, no two with the same key ({} for None).           *)
(***************************************************************************)
Capitals == {"M", "T", "B"}

\* str.upper and str.lower, of one character.
upper(ch) == CASE ch = "m" -> "M" [] ch = "t" -> "T" [] ch = "b" -> "B" [] OTHER -> ch
lower(ch) == CASE ch = "M" -> "m" [] ch = "T" -> "t" [] ch = "B" -> "b" [] OTHER -> ch

\* str.capitalize: the first character upper, the others lower.
capitalize(x) ==
    [i \in 1..Len(x) |-> IF i = 1 THEN upper(x[i]) ELSE lower(x[i])]

\* str.split('_').
RECURSIVE split(_)
split(text) ==
    IF \A i \in 1..Len(text) : text[i] # "_" THEN <<text>>
    ELSE LET i == CHOOSE j \in 1..Len(text) :
                      text[j] = "_" /\ \A h \in 1..j - 1 : text[h] # "_"
         IN  <<SubSeq(text, 1, i - 1)>> \o split(SubSeq(text, i + 1, Len(text)))

RECURSIVE join(_)
join(words) == IF words = <<>> THEN <<>> ELSE Head(words) \o join(Tail(words))

\* Line 56: ''.join(x.capitalize() or '_' for x in f.name[:-3].split('_')).
ConventionalName(stem) ==
    join([i \in 1..Len(split(stem)) |->
            IF capitalize(split(stem)[i]) = <<>> THEN <<"_">>
            ELSE capitalize(split(stem)[i])])

\* Lines 227-230: re.sub(r'(?<!^)(?=[A-Z])', '_', text).lower(), an
\* underscore before every capital that is not the first character.
camel_case_to_underscore(text) ==
    join([i \in 1..Len(text) |->
            IF i > 1 /\ text[i] \in Capitals THEN <<"_", lower(text[i])>>
            ELSE <<lower(text[i])>>])

\* Lines 57-58, 89-90 and 95-96: class_name, or overrides[class_name] when
\* class_name is a key of overrides.
Override(name) ==
    IF \E o \in overrides : o[1] = name
    THEN (CHOOSE o \in overrides : o[1] = name)[2]
    ELSE name

\* The places of the classes that are attributes of the module of the k-th
\* file: the class it defines and the class it imports.
Attributes(k) == {k} \cup {j \in {k + 1} : j <= Len(modules)}

\* The documents of the output directory, by name.
Documents == {modules[k].stem : k \in 1..Len(modules)}

\* Lines 93-101: the names of the documents of the ancestors from the k-th
\* place on, up to the first that has no document.
RECURSIVE AncestorLookups(_)
AncestorLookups(k) ==
    IF k > Len(modules) THEN <<>>
    ELSE IF Override(camel_case_to_underscore(modules[k].name)) \notin Documents THEN <<>>
    ELSE <<Override(camel_case_to_underscore(modules[k].name))>> \o AncestorLookups(k + 1)

Stems == <<<<"m", "_", "t">>, <<"m", "_", "b">>>>
ClassNamesOf(stem) ==
    { ConventionalName(stem), capitalize(join(split(stem))), capitalize(stem), stem,
      [i \in 1..Len(stem) |-> upper(stem[i])] }

ModuleChains ==
    UNION { { c \in [1..n -> [stem : {Stems[k] : k \in 1..n},
                              name : UNION {ClassNamesOf(Stems[k]) : k \in 1..n}]] :
                \A k \in 1..n : c[k].stem = Stems[k] /\ c[k].name \in ClassNamesOf(Stems[k]) } :
            n \in 1..2 }

\* The overrides a caller writes for the classes of the chain: the
\* conventional name to the name of the class, and the underscore name of
\* the class to the stem of its file.
OverridePairs(chain) ==
    { <<ConventionalName(chain[k].stem), chain[k].name>> : k \in 1..Len(chain) }
    \cup { <<camel_case_to_underscore(chain[k].name), chain[k].stem>> : k \in 1..Len(chain) }

InitOverrides ==
    /\ modules \in ModuleChains
    /\ overrides \in SUBSET { o \in OverridePairs(modules) : o[1] # o[2] }
    /\ todo = 1..Len(modules)
    /\ visited = 0 /\ resolved = 0 /\ lookups = <<>>
    /\ hierarchy = <<>> /\ in_dir = {} /\ md_files = <<>>
    /\ input_directory = "Path" /\ output_directory = "Path" /\ raised = ""
    /\ pc = "module"
    /\ MergeIdle /\ DocIdle /\ ParamIdle

\* Lines 54-60: the class name the file stem stands for, overridden, and
\* getattr of the imported module, which raises AttributeError when the
\* module has no attribute of that name.
ResolveClass(k) ==
    /\ pc = "module"
    /\ k \in todo
    /\ todo' = todo \ {k}
    /\ visited' = k
    /\ lookups' = <<>>
    /\ IF \E j \in Attributes(k) : modules[j].name = Override(ConventionalName(modules[k].stem))
       THEN /\ resolved' = CHOOSE j \in Attributes(k) :
                              modules[j].name = Override(ConventionalName(modules[k].stem))
            /\ raised' = raised
            /\ pc' = "type"
       ELSE /\ resolved' = 0
            /\ raised' = "AttributeError"
            /\ pc' = "raised"
    /\ UNCHANGED <<hierarchy, in_dir, md_files, input_directory, output_directory, modules,
                   overrides, mergeVars, docVars, paramVars, sigVars>>

\* Lines 88-92: the document of the class itself, read_text raising
\* FileNotFoundError when there is none of that name.
ReadChild ==
    /\ pc = "type"
    /\ IF Override(camel_case_to_underscore(modules[resolved].name)) \in Documents
       THEN /\ lookups' = <<Override(camel_case_to_underscore(modules[resolved].name))>>
            /\ raised' = raised
            /\ pc' = "ancestors"
       ELSE /\ lookups' = lookups
            /\ raised' = "FileNotFoundError"
            /\ pc' = "raised"
    /\ UNCHANGED <<hierarchy, in_dir, md_files, todo, visited, input_directory,
                   output_directory, modules, overrides, resolved, mergeVars, docVars,
                   paramVars, sigVars>>

\* Lines 93-102 and 63: the documents of the ancestors, the merged document
\* written to <stem>.md, and the next file.
ReadAncestors ==
    /\ pc = "ancestors"
    /\ lookups' = lookups \o AncestorLookups(resolved + 1)
    /\ pc' = IF todo = {} THEN "inherited" ELSE "module"
    /\ UNCHANGED <<hierarchy, in_dir, md_files, todo, visited, argVars, modules, overrides,
                   resolved, mergeVars, docVars, paramVars, sigVars>>

NextOverrides == (\E k \in 1..2 : ResolveClass(k)) \/ ReadChild \/ ReadAncestors

SpecOverrides == InitOverrides /\ [][NextOverrides]_vars

(***************************************************************************)
(* Readers of a document, used to state the properties: what a reader of   *)
(* the Markdown sees, not what the merger's patterns capture.              *)
(***************************************************************************)

\* The rows of the Class Variables table: the lines under the heading, a
\* blank line, the table head and its rule, up to the first blank line.
TableRows(text) ==
    LET i == HeadingAt(text, CLASS_VARIABLES, 1)
        lines == SplitLinesFrom(text, i)
        after == Slice(lines, 5, Len(lines))
        blank == {k \in 1..Len(after) : after[k] = <<>>}
    IN IF i = 0 THEN <<>>
       ELSE IF blank = {} THEN after
       ELSE Slice(after, 1, Min(blank) - 1)

\* The bullets of the Fields section, in order: the lines that start with the
\* bullet marker.
FieldEntries(text) ==
    IF HeadingAt(text, FIELDS, 1) = 0 THEN <<>>
    ELSE SelectSeq(SplitLines(FieldsGroup(text)),
                   LAMBDA l : Len(l) > 0 /\ l[1] = BULLET)

\* How often a token occurs in a text.
Count(text, tok) == Cardinality({i \in 1..Len(text) : text[i] = tok})

\* The function blocks anywhere in a document: from a function heading to the
\* next heading or section break.
RECURSIVE BlocksFrom(_, _)
BlocksFrom(text, from) ==
    LET i == HeadingAt(text, H4, from)
    IN IF i = 0 THEN <<>>
       ELSE LET e == LineEnd(text, i + 1)
                h == NextHashLine(text, e)
                b == LazyEnd(text, e)
                n == IF h < b THEN h ELSE b
            IN <<[name |-> Slice(text, i + 1, e - 1),
                  body |-> Strip(Slice(text, e, n - 1))]>>
               \o BlocksFrom(text, n)

BlocksAnywhere(text) == BlocksFrom(text, 1)

\* The function blocks of the Functions section of a document.
SectionBlocks(text) ==
    LET i == HeadingAt(text, FUNCTIONS, 1)
    IN IF i = 0 THEN <<>>
       ELSE BlocksFrom(Slice(text, i + 1, LazyEnd(text, i + 1) - 1), 1)

\* A block that has text after its call example.
Described(block) ==
    Len(block.body) > 0 /\ block.body[Len(block.body)] # CALL_CLOSE

BlockNames(blocks) == [i \in 1..Len(blocks) |-> blocks[i].name]

\* The body of the first block of that name.
BodyOf(blocks, name) ==
    blocks[Min({i \in 1..Len(blocks) : blocks[i].name = name})].body

\* A text of an ancestor or of the child as it reads in the child's document:
\* with the class statement names written as the child's name.
AsChild(text) ==
    LET child == ClassNameOf(child_text)
        names == [k \in 1..Len(parent_texts) |-> ClassNameOf(parent_texts[k])]
    IN Replace(RewriteNames(text, child, names),
               child \o <<LPAREN, "ABC", RPAREN>>, child)

Done == pc = "done"

(***************************************************************************)
(* C1.  The rows of the merged Class Variables table are the union of the  *)
(* ancestors' rows and the child's rows, each row once (so their number is *)
(* the size of that union), in sorted order; there is one such table.      *)
(***************************************************************************)
InputRows ==
    UNION {Range(TableRows(parent_texts[k])) : k \in 1..Len(parent_texts)}
    \cup Range(TableRows(child_text))

C1_MergeUnion ==
    Done =>
        LET rows == TableRows(merged)
        IN /\ Range(rows) = InputRows
           /\ Len(rows) = Cardinality(InputRows)
           /\ \A i, j \in 1..Len(rows) : i < j => LineLess(rows[i], rows[j])
           /\ Count(merged, CLASS_VARIABLES) = (IF InputRows = {} THEN 0 ELSE 1)

\* A child with two rows out of order, one of them also a row of an ancestor,
\* another ancestor's row being new: all merged.
C1_Witness ==
    /\ Done
    /\ Len(parent_texts) = 2
    /\ LET c == TableRows(child_text)
       IN /\ Len(c) = 2 /\ LineLess(c[2], c[1])
          /\ \E k \in 1..2 : Range(TableRows(parent_texts[k])) \cap Range(c) # {}
    /\ Len(TableRows(merged)) = 2

(***************************************************************************)
(* C5.  The merged Fields section lists the child's bullets, then every    *)
(* ancestor's bullets, nearest ancestor first, each ancestor's in their    *)
(* order, duplicates kept; without a Fields section in the child the       *)
(* section holds the ancestors' bullets.  A bullet is the line that starts *)
(* with the bullet marker; the lines that continue a description are not   *)
(* looked at here.                                                         *)
(***************************************************************************)
AncestorBullets ==
    Flatten([k \in 1..Len(parent_texts) |-> FieldEntries(parent_texts[k])])

C5_FieldsOrder ==
    Done =>
        /\ FieldEntries(merged) = FieldEntries(child_text) \o AncestorBullets
        /\ Count(merged, FIELDS) =
             (IF Count(child_text, FIELDS) = 0 /\ Len(AncestorBullets) = 0 THEN 0 ELSE 1)

\* A child with a bullet of its own and two ancestors with bullets, one of
\* the ancestors' bullets being a bullet of the child too: it is listed twice.
C5_Witness ==
    /\ Done
    /\ Len(parent_texts) = 2
    /\ Len(FieldEntries(child_text)) >= 1
    /\ \A k \in 1..2 : Len(FieldEntries(parent_texts[k])) >= 1
    /\ Len(FieldEntries(merged)) >= 3
    /\ \E a, b \in 1..Len(FieldEntries(merged)) :
          a < b /\ FieldEntries(merged)[a] = FieldEntries(merged)[b]

(***************************************************************************)
(* C2.  A function block of the child wins over the ancestors' blocks of   *)
(* the same name.                                                          *)
(***************************************************************************)
\* Some ancestor has a block of that name in its Functions section.
AncestorHasSectionBlock(name) ==
    \E k \in 1..Len(parent_texts) :
        name \in Range(BlockNames(SectionBlocks(parent_texts[k])))

Describing(name) ==
    {k \in 1..Len(parent_texts) :
        \E b \in Range(SectionBlocks(parent_texts[k])) :
            b.name = name /\ Described(b)}

DiscoveredNames(keep(_)) ==
    LET per(text) == BlockNames(SelectSeq(SectionBlocks(text), keep))
        all == Flatten([k \in 1..Len(parent_texts) |-> per(parent_texts[k])])
               \o per(child_text)
    IN SelectSeq(Distinct(all), LAMBDA n : n # <<INIT_NAME>>)

\* The nearest ancestor whose Functions section describes that name.
NearestDescribing(name) == Min(Describing(name))

\* The second half of C3: a name the child does not describe takes its block
\* from the nearest ancestor that describes it.
TakenFromNearest ==
    \A name \in Range(DiscoveredNames(Described)) :
        (\A cb \in Range(SectionBlocks(child_text)) :
            cb.name = name => ~Described(cb))
        => BodyOf(SectionBlocks(merged), name)
           = AsChild(BodyOf(SelectSeq(SectionBlocks(parent_texts[NearestDescribing(name)]),
                                      Described), name))

HasInit(text) == <<INIT_NAME>> \in Range(BlockNames(BlocksAnywhere(text)))

InitOf(text) == BodyOf(BlocksAnywhere(text), <<INIT_NAME>>)

C4_OneConstructor ==
    Done =>
        LET with == {k \in 1..Len(parent_texts) : HasInit(parent_texts[k])}
            stub == <<CALL_OPEN>> \o ClassNameOf(child_text)
                    \o <<LPAREN, RPAREN, CALL_CLOSE>>
        IN /\ Cardinality({i \in 1..Len(merged) - 1 :
                            merged[i] = H4 /\ merged[i + 1] = INIT_NAME}) = 1
           /\ IF HasInit(child_text) THEN InitOf(merged) = AsChild(InitOf(child_text))
              ELSE IF with # {}
                   THEN InitOf(merged) = AsChild(InitOf(parent_texts[Min(with)]))
              ELSE Contains(InitOf(merged), stub)
                   /\ Count(InitOf(merged), CALL_OPEN) = 1

(***************************************************************************)
(* C6.  Nothing named with a leading underscore is rendered by get_doc: no *)
(* class header of an underscore class, no function block of an underscore *)
(* function other than the constructor, and no function block of a         *)
(* function declared in an underscore class, one that follows a public     *)
(* class included.  The function blocks of the document are then those of  *)
(* the public functions (and constructors) of the public classes.          *)
(***************************************************************************)
IsPublicClass(c) == ~Underscored(c.name[1])

IsPublicFn(f) == f.name = INIT \/ ~Underscored(f.name[1])

\* The functions of the file that may be rendered: the public functions of
\* its public classes, in order.
RenderableFns ==
    Flatten([k \in 1..Len(source) |->
                IF IsPublicClass(source[k]) THEN SelectSeq(source[k].funcs, IsPublicFn)
                ELSE <<>>])

Returned == pc = "document"

C6_UnderscoreExcluded ==
    Returned =>
        /\ \A i \in 1..Len(document) - 1 :
              document[i] = H1 => ~Underscored(document[i + 1])
        /\ \A i \in 1..Len(document) - 1 :
              document[i] = H4 => document[i + 1] \notin {"_", "\\_\\_"}
        /\ Count(document, H4) = Len(RenderableFns)

(***************************************************************************)
(* C10.  The call example of every rendered function of a public class C,  *)
(* declared with or without base classes: C.<name>(<args>) for a static    *)
(* function, self.<name>(<args>) for any other function, C(<args>) for the *)
(* constructor, C being the name of the class without its bases and <args> *)
(* the documented parameters (those without default in the first example,  *)
(* all of them, with their defaults, in the second when it differs).       *)
(***************************************************************************)
\* The arguments of a call example; with_defaults tells the second example.
CallArgs(f, with_defaults) ==
    LET ps == IF ~f.documented THEN <<>>
              ELSE IF with_defaults THEN f.params
              ELSE SelectSeq(f.params, LAMBDA p : Len(p.default) = 0)
    IN Join(<<",", SP>>,
            [k \in 1..Len(ps) |->
                ps[k].name \o (IF Len(ps[k].default) = 0 THEN <<>>
                               ELSE <<"=">> \o ps[k].default)])

\* The call example the claim expects for function f of class c.
ExpectedCall(c, f, with_defaults) ==
    (IF f.static THEN c.name \o <<".">> \o f.name
     ELSE IF f.name = INIT THEN c.name
     ELSE <<"self", ".">> \o f.name)
    \o <<LPAREN>> \o CallArgs(f, with_defaults) \o <<RPAREN>>

\* The head of the block the claim expects: the heading and the examples.
ExpectedHead(c, f) ==
    <<H4>> \o ShortenedDefStr(f.name) \o <<NL, NL>>
    \o <<CALL_OPEN>> \o ExpectedCall(c, f, FALSE) \o <<CALL_CLOSE>>
    \o (IF CallArgs(f, TRUE) = CallArgs(f, FALSE) THEN <<>>
        ELSE <<NL, NL, CALL_OPEN>> \o ExpectedCall(c, f, TRUE) \o <<CALL_CLOSE>>)

C10_CallExamples ==
    Returned =>
        \A k \in 1..Len(source) :
            IsPublicClass(source[k]) =>
                \A f \in Range(SelectSeq(source[k].funcs, IsPublicFn)) :
                    Contains(document, ExpectedHead(source[k], f))

(***************************************************************************)
(* C9.  Parameter on a signature written as `def f(x: List[int] = None,    *)
(* y=3)`: a parameter with a bracketed annotation and a default has as     *)
(* type the annotation through its first `]`, no blank around it, and as   *)
(* default the literal; a parameter without annotation and with a default  *)
(* has the empty type and the literal as default.  Signatures in which the *)
(* name handed in ends the name of another parameter are left aside.       *)
(***************************************************************************)
\* The parameter of the signature that has the name handed in.
Extracted == signature[CHOOSE k \in 1..Len(signature) : signature[k].name = param_name]

\* The name handed in ends the name of another parameter of the signature.
EndsAnotherName ==
    \E k \in 1..Len(signature) :
        LET other == signature[k].name
        IN /\ other # param_name
           /\ Len(other) > Len(param_name)
           /\ Slice(other, Len(other) - Len(param_name) + 1, Len(other)) = param_name

Constructed == pc = "parameter"

C9_TypeAndDefault ==
    (Constructed /\ ~EndsAnotherName /\ Len(Extracted.default) > 0) =>
        /\ Contains(Extracted.annotation, <<"]">>) =>
              /\ parameter.param_type = SplitHead(Extracted.annotation, "]") \o <<"]">>
              /\ parameter.default_value = Extracted.default
        /\ Len(Extracted.annotation) = 0 =>
              /\ parameter.param_type = <<>>
              /\ parameter.default_value = Extracted.default

(***************************************************************************)
(* C8.  get_from_type: the ancestor documents handed to the merge are the  *)
(* documents of the longest run of ancestors, from the nearest on, that    *)
(* all have a document in the directory; the walk ends at the first        *)
(* ancestor without a document, an ancestor after it is not read even if   *)
(* it has one, and the merge of the class's document with those documents  *)
(* is what is returned and written.                                        *)
(***************************************************************************)
\* The place of the first ancestor of the class at place k that has no
\* document; one past the hierarchy when all have one.
FirstMissing(k) ==
    LET missing == {j \in k + 1..Len(hierarchy) : md_files[j] = NoFile}
    IN IF missing = {} THEN Len(hierarchy) + 1 ELSE Min(missing)

C8_LongestPrefix ==
    (pc = "inherit" /\ visited # 0) =>
        /\ parent_texts = [j \in 1..FirstMissing(visited) - visited - 1 |->
                              md_files[visited + j]]
        /\ merged = get_from_text(child_text, parent_texts)
        /\ md_files[visited] = merged

\* The nearest ancestor has no document and the one after it has: nothing is
\* handed to the merge.
C8_Witness ==
    /\ pc = "inherit" /\ visited # 0
    /\ visited + 2 <= Len(hierarchy)
    /\ md_files[visited + 1] = NoFile
    /\ md_files[visited + 2] # NoFile
    /\ parent_texts = <<>>
    /\ merged # <<>>

(***************************************************************************)
(* C7.  get_from_directory: in whatever order the files are visited, the   *)
(* document written at last for each class is get_from_text of the         *)
(* un-inherited document of the class and the un-inherited documents of    *)
(* its ancestors (the longest run of them with a document); it does not    *)
(* depend on an ancestor's file having been overwritten before.            *)
(***************************************************************************)
\* The un-inherited documents of the ancestors of the class at place k, up to
\* the first ancestor whose file is not of the directory.
UnInherited(k) ==
    LET out == {j \in k + 1..Len(hierarchy) : j \notin in_dir}
        stop == IF out = {} THEN Len(hierarchy) + 1 ELSE Min(out)
    IN [j \in 1..stop - k - 1 |-> RenderDoc(hierarchy[k + j])]

C7_OrderIndependent ==
    (pc = "inherit" /\ todo = {}) =>
        \A k \in in_dir :
            md_files[k] = get_from_text(RenderDoc(hierarchy[k]), UnInherited(k))

(***************************************************************************)
(* C11.  The enum table of an enum class has one row for every member      *)
(* declared after the description, in source order, with the member's      *)
(* trailing comment as description (empty without comment), and no other   *)
(* row: none for a blank line, none for a line before the description      *)
(* closes.                                                                 *)
(***************************************************************************)
\* The part of the document that a public class of the file opens: from its
\* header to the next header.
ClassPart(k) ==
    LET p == Find(<<H1>> \o source[k].name, document, 1)
        n == Find(<<H1>>, document, p + 1)
    IN IF p = 0 THEN <<>>
       ELSE Slice(document, p, IF n = 0 THEN Len(document) ELSE n - 1)

\* The rows of the enum table of a part: the lines after the rule of the
\* table that begin as a row, each up to the bar that closes it.
EnumTableRows(part) ==
    LET ls == SplitLines(part)
        r == {i \in 1..Len(ls) : ls[i] = <<ENUM_RULE>>}
        after == Slice(ls, Min(r) + 1, Len(ls))
        stop == {i \in 1..Len(after) : Len(after[i]) = 0 \/ after[i][1] # "| "}
        n == IF stop = {} THEN Len(after) ELSE Min(stop) - 1
    IN IF r = {} THEN <<>>
       ELSE [i \in 1..n |-> Slice(after[i], 1, LastOf(after[i], " |"))]

\* The members of an enum class of the file: the lines of its body that are
\* not blank.
EnumMembers(c) == SelectSeq(c.body, LAMBDA l : Strip(l) # <<>>)

\* The row the claim expects for a member.
ExpectedEnumRow(member) ==
    LET h == Find(<<"#">>, member, 1)
    IN <<"| ", "'", member[2], "'", " | ">>
       \o (IF h = 0 THEN <<>> ELSE Slice(member, h + 2, Len(member)))
       \o <<" |">>

IsEnumClass(c) == IsPublicClass(c) /\ c.base = <<"Enum">>

C11_EnumRows ==
    Returned =>
        \A k \in 1..Len(source) :
            IsEnumClass(source[k]) =>
                EnumTableRows(ClassPart(k))
                = [i \in 1..Len(EnumMembers(source[k])) |->
                      ExpectedEnumRow(EnumMembers(source[k])[i])]

(***************************************************************************)
(* C12.  The part of the document of every public class has its sections   *)
(* in the order header, import example, description, enum table or         *)
(* separator, Class Variables, Fields, Functions; every function block     *)
(* stands after the Functions heading; and every section heading follows a *)
(* section break.  This is claimed of every source file: of enum classes,  *)
(* of classes without constructor, of classes whose constructor is not the *)
(* first function.                                                         *)
(***************************************************************************)
\* The places of a token in a text.
Places(text, tok) == {i \in 1..Len(text) : text[i] = tok}

\* Every place of the first token is before every place of the second.
AllBefore(text, first, second) ==
    \A i \in Places(text, first) : \A j \in Places(text, second) : i < j

\* The heading at place i follows a section break and a blank line.
AfterBreak(text, i) == i > 3 /\ Slice(text, i - 3, i - 1) = <<BREAK, NL, NL>>

SectionOrder(part) ==
    /\ Len(part) >= 4 /\ part[1] = H1 /\ part[3] = NL /\ part[4] = NL
    /\ part[5] = FROM
    /\ \A h \in {CLASS_VARIABLES, FIELDS, FUNCTIONS} :
          /\ Cardinality(Places(part, h)) <= 1
          /\ \A i \in Places(part, h) : AfterBreak(part, i)
    /\ AllBefore(part, ENUM_RULE, CLASS_VARIABLES)
    /\ AllBefore(part, CLASS_VARIABLES, FIELDS)
    /\ AllBefore(part, FIELDS, FUNCTIONS)
    /\ Places(part, H4) # {} => Places(part, FUNCTIONS) # {}
    /\ AllBefore(part, FUNCTIONS, H4)

C12_SectionOrder ==
    Returned =>
        \A k \in 1..Len(source) :
            IsPublicClass(source[k]) => SectionOrder(ClassPart(k))

(***************************************************************************)
(* C13.  In both pathways of the categories, the document shows the        *)
(* functions a category lists under the heading of the category, the       *)
(* headings in the order of the configuration, each heading followed by    *)
(* the description of the category when it has one, each category closed   *)
(* by a section break; the functions of Ignore stand nowhere, those of     *)
(* Constructor under no heading.                                           *)
(***************************************************************************)
\* The configuration of the run and the document its pathway gave.
Configured == IF metadata # <<>> THEN metadata ELSE sort_metadata
Config == CategoriesOf(Configured, <<"Child">>)
ViaGetDoc == metadata # <<>> /\ pc = "document"
ViaSort == sort_metadata # <<>> /\ pc = "sorted"
Grouped == IF ViaSort THEN sorted_doc ELSE document

\* The names every category of the configuration lists.
ListedNames(cats) == UNION {Listed(cats[k]) : k \in 1..Len(cats)}

\* The headings of categories and functions and the section breaks of a
\* text after its Functions heading, in order; the functions that no
\* category lists left out.
LayoutItem(text, i) ==
    IF text[i] = BREAK THEN <<BREAK>>
    ELSE IF text[i] = H3 THEN <<H3, text[i + 1]>>
    ELSE <<H4>> \o FunctionNameOf(Slice(text, i, Len(text)))

Layout(text, cats) ==
    LET from == Find(<<FUNCTIONS>>, text, 1)
        at == SelectSeq([i \in 1..Len(text) |-> i],
                        LAMBDA i : i > from /\ text[i] \in {H3, H4, BREAK})
        items == [k \in 1..Len(at) |-> LayoutItem(text, at[k])]
    IN SelectSeq(items, LAMBDA it : it[1] = H4 => Tail(it) \in ListedNames(cats))

\* The items up to every section break; what follows the last break is a
\* group that no break closes.
RECURSIVE Groups(_)
Groups(items) ==
    IF Len(items) = 0 THEN <<>>
    ELSE LET b == {j \in 1..Len(items) : items[j] = <<BREAK>>}
         IN IF b = {} THEN <<items \o <<<<"unclosed">>>>>>
            ELSE <<Slice(items, 1, Min(b) - 1)>>
                 \o Groups(Slice(items, Min(b) + 1, Len(items)))

GroupOf(group, cat) ==
    LET head == IF cat.name = "Constructor" THEN <<>> ELSE <<<<H3, cat.name>>>>
    IN /\ Len(group) = Len(head) + Len(cat.functions)
       /\ Slice(group, 1, Len(head)) = head
       /\ {group[j] : j \in Len(head) + 1..Len(group)}
          = {<<H4>> \o f : f \in Listed(cat)}

Categorised(text, cats) ==
    LET shown == SelectSeq(cats, LAMBDA c : c.name # "Ignore")
        groups == Groups(Layout(text, cats))
    IN /\ Len(groups) = Len(shown)
       /\ \A k \in 1..Len(shown) :
            /\ GroupOf(groups[k], shown[k])
            /\ shown[k].name # "Constructor" =>
                 Contains(text, <<H3, shown[k].name, NL, NL>>
                                \o (IF shown[k].description = <<>> THEN <<>>
                                    ELSE shown[k].description \o <<NL, NL>>)
                                \o <<H4>>)
       /\ \A k \in 1..Len(cats) :
            cats[k].name = "Ignore" =>
                \A f \in Listed(cats[k]) : ~Contains(text, <<H4>> \o FunctionKey(f))

C13_Categories == (ViaGetDoc \/ ViaSort) => Categorised(Grouped, Config)

(***************************************************************************)
(* C14.  A function of the class that no category lists makes neither      *)
(* pathway fail and is lost in neither: a warning names it, and its block  *)
(* stands in the document.                                                 *)
(***************************************************************************)
\* The functions of the file that no category of the configuration lists.
Uncategorised ==
    {RenderableFns[k].name : k \in 1..Len(RenderableFns)} \ ListedNames(Config)

Warned(fname) == \E k \in 1..Len(warnings) : warnings[k].function = fname

C14_UncategorisedKept ==
    /\ pc \notin {"raised", "sort raised"}
    /\ (ViaGetDoc \/ ViaSort) =>
          \A f \in Uncategorised :
              Warned(f) /\ Contains(Grouped, <<H4>> \o FunctionKey(f) \o <<NL>>)

(***************************************************************************)
(* C15.  Of several `:return` lines of a docstring the document shows the  *)
(* last one after `_Returns:_`; the earlier ones do not show.              *)
(***************************************************************************)
RETURNS == "_Returns:_ "

\* The functions of the file whose docstring has a `:return` line.
Returning == SelectSeq(RenderableFns, LAMBDA f : f.documented /\ f.closed /\ f.returns # <<>>)

\* The texts that follow `_Returns:_` in the document, in order.
ReturnsShown ==
    LET at == SelectSeq([i \in 1..Len(document) |-> i], LAMBDA i : document[i] = RETURNS)
    IN [k \in 1..Len(at) |->
          Slice(document, at[k] + 1,
                Min({j \in at[k] + 1..Len(document) + 1 :
                        j = Len(document) + 1 \/ document[j] = NL}) - 1)]

C15_LastReturn ==
    Returned =>
        ReturnsShown = [k \in 1..Len(Returning) |->
                           <<SP>> \o Returning[k].returns[Len(Returning[k].returns)]]

C15_Witness ==
    /\ Returned
    /\ \E k \in 1..Len(Returning) :
          /\ Len(Returning[k].returns) > 1
          /\ ReturnsShown[k] = <<SP>> \o Returning[k].returns[Len(Returning[k].returns)]
          /\ ReturnsShown[k] # <<SP>> \o Returning[k].returns[1]

\* The statement of the claim as written: the first `:return` line shows.
C15_FirstReturn ==
    Returned =>
        ReturnsShown = [k \in 1..Len(Returning) |-> <<SP>> \o Returning[k].returns[1]]

(***************************************************************************)
(* C16.  The scan of the docstring of a function reads no line of a later  *)
(* declaration: a function without docstring is rendered with an empty     *)
(* description, without parameter table and without return text, whatever  *)
(* follows it in the file.                                                 *)
(***************************************************************************)
\* The block of the document that the heading at place i opens: up to the
\* next heading of a function, a class or a section.
BlockAt(i) ==
    LET next == {j \in i + 1..Len(document) :
                    document[j] \in {H4, H1, H3, FIELDS, FUNCTIONS, CLASS_VARIABLES}}
    IN Slice(document, i, IF next = {} THEN Len(document) ELSE Min(next) - 1)

\* A block of a heading and call examples (and the note of a static
\* function) and nothing else.
Bare(block) ==
    \A j \in LastOf(block, CALL_CLOSE) + 1..Len(block) : block[j] \in {NL, STATIC_NOTE}

\* The functions of the file, of whatever class, that have the name.
Named(fname) ==
    {f \in UNION {Range(source[k].funcs) : k \in 1..Len(source)} : f.name = fname}

C16_ScanStaysInside ==
    Returned =>
        \A i \in Places(document, H4) :
            (\A f \in Named(FunctionNameOf(BlockAt(i))) : ~f.documented) => Bare(BlockAt(i))

(***************************************************************************)
(* C17.  With an import prefix, the import example of a class that         *)
(* __init__.py does not import has the prefix in the place of `from` and   *)
(* the first name of the path, up to the first dot; the rest of the path   *)
(* and ` import <ClassName>` stay.  The import example of a class that     *)
(* __init__.py imports has no dot and stays as it is.  Without import      *)
(* prefix every import example stays as get_doc wrote it.                  *)
(***************************************************************************)
\* The import example of the document: the line after the header of the
\* class and the blank line.
ImportLine == SplitLines(document)[3]

Imported == <<"Child">> \in special_imports

C17_PrefixReplacesRoot ==
    Returned =>
        ImportLine = IF import_prefix = <<>> \/ Imported THEN ImportExample(<<"Child">>)
                     ELSE <<"'">> \o import_prefix \o <<".", "mod", IMPORT, "Child", "'">>

C17_Witness ==
    /\ Returned /\ import_prefix # <<>> /\ ~Imported
    /\ ImportLine = <<"'">> \o import_prefix \o <<".", "mod", IMPORT, "Child", "'">>

\* The statement of the claim as written: the prefix stands for the whole
\* dotted path.
C17_PrefixReplacesPath ==
    Returned =>
        ImportLine = IF import_prefix = <<>> THEN ImportExample(<<"Child">>)
                     ELSE <<"'">> \o import_prefix \o <<IMPORT, "Child", "'">>

(***************************************************************************)
(* C18.  In the merged document of a whole hierarchy every call example    *)
(* that names a class names the child class exactly: the name of the       *)
(* child, then a dot or the opening parenthesis.  This is claimed of every *)
(* pair of names, of a child whose name ends with the name of an ancestor  *)
(* as well.                                                                *)
(***************************************************************************)
\* The call examples of a text: what stands between the opening and the
\* closing of every example.
CallExamples(text) ==
    { Slice(text, i + 1, Min({j \in i + 1..Len(text) : text[j] = CALL_CLOSE}) - 1) :
        i \in Places(text, CALL_OPEN) }

NamesExactly(example, cname) ==
    \/ example[1] = "self"
    \/ /\ Len(example) > Len(cname)
       /\ Slice(example, 1, Len(cname)) = cname
       /\ example[Len(cname) + 1] \in {".", LPAREN}

C18_CallsNameChild ==
    Done => \A e \in CallExamples(merged) : NamesExactly(e, ClassNameOf(child_text))

(***************************************************************************)
(* C19.  get_from_directory with each directory given as a str or as a     *)
(* Path raises nothing; with a directory of another type it raises         *)
(* TypeError and no document is written.                                   *)
(***************************************************************************)
PathLike(directory) == directory \in {"Path", "str"}

C19_DirectoryTypes ==
    pc # "arguments" =>
        IF PathLike(input_directory) /\ PathLike(output_directory)
        THEN pc # "raised" /\ raised = ""
        ELSE /\ pc = "raised" /\ raised = "TypeError"
             /\ \A k \in 1..Len(md_files) : md_files[k] = NoFile

(***************************************************************************)
(* C20.  A documentation block that is not well formed makes get_doc       *)
(* neither raise nor show foreign text: a public class without docstring   *)
(* is shown with an empty description, and a function whose docstring is   *)
(* absent or is not closed is shown without any text after its call        *)
(* examples.                                                               *)
(***************************************************************************)
\* The description that the part of a class shows: what stands between its
\* import example and its section break or enum table.
DescriptionShown(part) ==
    LET q == Find(<<"'", NL, NL>>, part, 1)
        ends == {j \in q + 1..Len(part) : part[j] \in {BREAK, ENUM_HEAD}}
    IN Strip(Slice(part, q + 3, IF ends = {} THEN Len(part) ELSE Min(ends) - 1))

Malformed(f) == ~f.documented \/ ~f.closed

C20_MalformedBlocks ==
    /\ pc # "raised"
    /\ Returned =>
          /\ \A k \in 1..Len(source) :
                (IsPublicClass(source[k]) /\ ~source[k].described) =>
                    DescriptionShown(ClassPart(k)) = <<>>
          /\ \A i \in Places(document, H4) :
                (\A f \in Named(FunctionNameOf(BlockAt(i))) : Malformed(f)) =>
                    Bare(BlockAt(i))

(***************************************************************************)
(* C21.  A file whose class has not the conventional name, with the        *)
(* override {conventional name: actual name}.                              *)
(***************************************************************************)
Unconventional(k) == modules[k].name # ConventionalName(modules[k].stem)

\* The overrides hold, for the k-th file, the pair the conventional name
\* of the file to the name of its class.
NameOverridden(k) == <<ConventionalName(modules[k].stem), modules[k].name>> \in overrides

\* Every class from the k-th on has the conventional name or its override.
OverridesGiven(k) ==
    \A j \in k..Len(modules) : Unconventional(j) => NameOverridden(j)

\* The stems of the files from the k-th on: the documents of the class and
\* of its ancestors.
OwnAndAncestors(k) == [i \in 1..Len(modules) - k + 1 |-> modules[k + i - 1].stem]

\* The turn of the loop for the visited file has ended.
FileInherited == pc \in {"module", "inherited"} /\ visited # 0

\* C21: when the visited file defines a class that has not the conventional
\* name and overrides maps the conventional name to the name of the class
\* (and so for its ancestors), get_from_directory resolves the class, raises
\* nothing, and reads the document of the class and those of its ancestors.
C21_OverrideCompletes ==
    (visited # 0 /\ Unconventional(visited) /\ OverridesGiven(visited))
        => /\ pc # "raised"
           /\ pc \in {"type", "ancestors"} => resolved = visited
           /\ FileInherited => lookups = OwnAndAncestors(visited)

\* A file with an overridden class name whose turn of the loop ends.
C21_Witness ==
    /\ FileInherited /\ Unconventional(visited) /\ OverridesGiven(visited)
    /\ lookups = OwnAndAncestors(visited)

\* C21 with, besides, the underscore form of every overridden class name
\* mapped to the stem of its file.
UnderscoreOverridden(k) ==
    \A j \in k..Len(modules) :
        Unconventional(j) =>
            Override(camel_case_to_underscore(modules[j].name)) = modules[j].stem

C21_BothOverrides ==
    (visited # 0 /\ Unconventional(visited) /\ OverridesGiven(visited)
        /\ UnderscoreOverridden(visited))
        => /\ pc # "raised"
           /\ pc \in {"type", "ancestors"} => resolved = visited
           /\ FileInherited => lookups = OwnAndAncestors(visited)

(***************************************************************************)
(* C22.  The Class Variables table of a class with tagged class variables. *)
(***************************************************************************)
\* The lines of the table under the Class Variables heading of a part: the
\* header, the rule and the rows.
ClassVariableTable(part) ==
    LET ls == SplitLines(part)
        h == {i \in 1..Len(ls) : ls[i] = <<CLASS_VARIABLES>>}
        after == Slice(ls, Min(h) + 1, Len(ls))
        solid == {i \in 1..Len(after) : Len(after[i]) # 0}
        table == Slice(after, Min(solid), Len(after))
        stop == {i \in 1..Len(table) : Len(table[i]) = 0}
    IN IF h = {} \/ solid = {} THEN <<>>
       ELSE Slice(table, 1, IF stop = {} THEN Len(table) ELSE Min(stop) - 1)

\* The number of cells of a line of a table.
Cells(line) ==
    IF line \in {<<TABLE4_HEAD>>, <<TABLE4_RULE>>} THEN 4
    ELSE IF line \in {<<TABLE3_HEAD>>, <<TABLE3_RULE>>} THEN 3
    ELSE Cardinality({i \in 1..Len(line) : line[i] = " | "}) + 1

\* The tagged class variables of a class of the file: the lines of its body
\* that declare one (the fourth line of each tagged variable).
HasClassVariables(c) ==
    IsPublicClass(c) /\ \E i \in 1..Len(c.body) : Contains(c.body[i], <<":class_var">>)

Declarations(c) ==
    SelectSeq(c.body, LAMBDA l : Contains(l, <<"=">>))

\* The row the claim expects for a declaration `name[: type] = value`
\* described by "The <name> value."; without the value, the row get_doc
\* writes, whose name is the text before the colon or the equals sign (with
\* the blank before the equals sign of a declaration without type).
ExpectedVariableRow(decl, with_value) ==
    LET c == Find(<<":">>, decl, 1)
        e == Find(<<"=">>, decl, 1)
    IN <<"| ", "'">>
       \o (IF with_value THEN <<decl[2]>>
           ELSE Slice(decl, 2, (IF c = 0 THEN e ELSE c) - 1))
       \o <<"'", " | ">>
       \o (IF c = 0 THEN <<>> ELSE Slice(decl, c + 2, e - 2))
       \o <<" | ", "The ", decl[2], " value.">>
       \o (IF with_value THEN <<" | ">> \o Slice(decl, e + 2, Len(decl)) ELSE <<>>)
       \o <<" |">>

\* The table of the k-th class under the header head and its rule: a row
\* for every tagged class variable, each with as many cells as the header.
VariableTableIs(k, head, rule, with_value) ==
    LET table == ClassVariableTable(ClassPart(k))
        decls == Declarations(source[k])
    IN /\ Len(table) = Len(decls) + 2
       /\ table[1] = <<head>> /\ table[2] = <<rule>>
       /\ \A i \in 1..Len(decls) :
            /\ table[i + 2] = ExpectedVariableRow(decls[i], with_value)
            /\ Cells(table[i + 2]) = Cells(table[1])

\* C22: the document get_doc returns has, for every class with tagged class
\* variables, a Class Variables table with the four columns Variable, Type,
\* Description and Value (the header of the merger), and every row carries
\* the name, the type, the description and the value text of its variable,
\* with as many cells as the header.
C22_FourColumns ==
    Returned =>
        \A k \in 1..Len(source) :
            HasClassVariables(source[k]) =>
                VariableTableIs(k, TABLE4_HEAD, TABLE4_RULE, TRUE)

\* The scan of get_class_variables for the k-th class ends inside the
\* class: at its constructor, or at the end of the file.
ScanEndsInClass(k) ==
    \/ k = Len(source)
    \/ \E i \in 1..Len(source[k].funcs) : source[k].funcs[i].name = <<"__", "init", "__">>

\* What get_doc writes: the three columns Variable, Type and Description,
\* for a class that has a constructor or is the last of the file.
C22_ThreeColumns ==
    Returned =>
        \A k \in 1..Len(source) :
            (HasClassVariables(source[k]) /\ ScanEndsInClass(k)) =>
                VariableTableIs(k, TABLE3_HEAD, TABLE3_RULE, FALSE)

(***************************************************************************)
(* C23.  A source file of several public classes, each with a description. *)
(***************************************************************************)
SeveralClasses ==
    /\ Len(source) >= 2
    /\ \A k \in 1..Len(source) : IsPublicClass(source[k]) /\ source[k].described

\* The names of the function blocks of a part, in the order of the part.
FunctionHeadings(part) ==
    LET ps == Places(part, H4)
    IN [i \in 1..Cardinality(ps) |->
          FunctionNameOf(Slice(part, CHOOSE p \in ps : Cardinality({q \in ps : q <= p}) = i,
                               Len(part)))]

\* The names of the functions of a class that get_doc renders.
OwnFunctions(c) ==
    [i \in 1..Len(SelectSeq(c.funcs, IsPublicFn)) |-> SelectSeq(c.funcs, IsPublicFn)[i].name]

\* The part of the k-th class shows the description of the j-th class and
\* the functions of the k-th.
PartShows(k, j) ==
    /\ DescriptionShown(ClassPart(k)) = <<"Description of ">> \o source[j].name
    /\ FunctionHeadings(ClassPart(k)) = OwnFunctions(source[k])

\* The headers of the classes stand in the document in source order.
HeadersInOrder ==
    \A k \in 1..Len(source) :
        /\ Find(<<H1>> \o source[k].name, document, 1) # 0
        /\ k > 1 => Find(<<H1>> \o source[k - 1].name, document, 1)
                        < Find(<<H1>> \o source[k].name, document, 1)

\* C23: the document of a source file with several public classes has, for
\* each class in source order, the header of the class followed by the
\* description of that class and the blocks of the functions of that class;
\* no description and no block is that of another class, and none is missing.
C23_OwnDescriptions ==
    (Returned /\ SeveralClasses) =>
        /\ HeadersInOrder
        /\ \A k \in 1..Len(source) : PartShows(k, k)

\* What get_doc writes: under every header the description of the first
\* class of the file, and the functions of the class of the header.
C23_FirstDescription ==
    (Returned /\ SeveralClasses) =>
        /\ HeadersInOrder
        /\ \A k \in 1..Len(source) : PartShows(k, 1)

(***************************************************************************)
(* C24.  Parameter on a parameter written without annotation or without    *)
(* default, whatever the other parameters of the signature.                *)
(***************************************************************************)
\* The parameter handed in has no annotation, or no default.
Unannotated == Len(Extracted.annotation) = 0
Undefaulted == Len(Extracted.default) = 0

\* C24: for every signature and every parameter name of it, a parameter
\* without annotation has the empty type and a parameter without `=` has the
\* empty default, whatever the other parameters are, those whose name ends
\* with the name handed in included.
C24_EmptyTypeAndDefault ==
    Constructed =>
        /\ Unannotated => parameter.param_type = <<>>
        /\ Undefaulted => parameter.default_value = <<>>

\* C24 for the signatures in which the name handed in ends no other name.
C24_NoOtherNameEnds ==
    (Constructed /\ ~EndsAnotherName) =>
        /\ Unannotated => parameter.param_type = <<>>
        /\ Undefaulted => parameter.default_value = <<>>

(***************************************************************************)
(* C25.  The loops that put the signature together stay inside the lines.  *)
(***************************************************************************)
\* The last line of the declaration at idx: the first line from idx on that
\* ends with a colon.
SignatureEnd ==
    Min({k \in idx..Len(src_lines) :
            Len(src_lines[k]) > 0 /\ src_lines[k][Len(src_lines[k])] = ":"})

\* The lines of the declaration at idx put together.
OwnSignature ==
    Flatten([k \in 1..SignatureEnd - idx + 1 |->
                IF k = 1 THEN src_lines[idx] ELSE AddedLine(src_lines[idx + k - 1])])

\* C25: for every sequence of lines and every declaration in it, the loops
\* of get_function_documentation and of get_fields that add the following
\* lines until the closing pattern matches stop at or before the last line
\* and never read a line past the end, for a function declared without
\* return annotation too.
C25_LoopsStop ==
    /\ raised # "IndexError"
    /\ pc \in {"while", "matched"} => idx + count - 1 <= Len(src_lines)

\* The loops on a declaration whose own lines hold the closing pattern
\* looked for: they stop at the last line of the declaration.
C25_ClosedDeclarations ==
    SignatureMatches(OwnSignature) =>
        /\ raised # "IndexError"
        /\ pc \in {"while", "matched"} => idx + count - 1 <= SignatureEnd
        /\ pc = "matched" => idx + count - 1 = SignatureEnd

(***************************************************************************)
(* C26.  The section breaks of the merged document.                        *)
(***************************************************************************)
\* Two section breaks with only a blank line between them.
DoubledBreak(text) == Contains(text, <<BREAK, NL, NL, BREAK>>)

\* Every heading h of the text follows a section break and a blank line.
EveryAfterBreak(text, h) == \A i \in Places(text, h) : AfterBreak(text, i)

\* C26: the merged document has no doubled section break, and when it has a
\* Class Variables section every Fields heading and every Functions heading
\* in it stands right after a section break of its own.
C26_SectionBreaks ==
    Done =>
        /\ ~DoubledBreak(merged)
        /\ Contains(merged, <<CLASS_VARIABLES>>) =>
              /\ EveryAfterBreak(merged, FIELDS)
              /\ EveryAfterBreak(merged, FUNCTIONS)

\* The second half of C26 alone: with a Class Variables section, every
\* Fields heading and every Functions heading follows a section break.
C26_HeadingsAfterBreaks ==
    Done =>
        (Contains(merged, <<CLASS_VARIABLES>>) =>
            /\ EveryAfterBreak(merged, FIELDS)
            /\ EveryAfterBreak(merged, FUNCTIONS))

(***************************************************************************)
(* C27.  The child's own field entries, the lines that continue a          *)
(* description included, in the merged Fields section.                     *)
(***************************************************************************)
\* The entries of the Fields section of a text: every bullet line with the
\* lines that follow it up to the next blank line.
FullFieldEntries(text) ==
    LET ls == SplitLines(Strip(FieldsGroup(text)))
        bullets == {i \in 1..Len(ls) : Len(ls[i]) > 0 /\ ls[i][1] = BULLET}
        last(i) == Min({j \in i..Len(ls) : j = Len(ls) \/ Len(ls[j + 1]) = 0})
    IN IF HeadingAt(text, FIELDS, 1) = 0 THEN {}
       ELSE { Join(<<NL>>, [n \in 1..last(i) - i + 1 |-> ls[i + n - 1]]) : i \in bullets }

\* The entry stands in the Fields section of the text, whole and by itself.
HasFieldEntry(text, entry) ==
    Contains(<<NL, NL>> \o Strip(FieldsGroup(text)) \o <<NL, NL>>,
             <<NL, NL>> \o entry \o <<NL, NL>>)

\* The child has a Fields section and the ancestors give bullets.
FieldsInherited ==
    Done /\ HeadingAt(child_text, FIELDS, 1) # 0 /\ Len(AncestorBullets) > 0

\* C27: when the child has a Fields section and the ancestors contribute
\* fields, every entry of the child's Fields section, with the lines that
\* continue its description, stands unchanged in the merged Fields section.
C27_OwnFieldsVerbatim ==
    FieldsInherited =>
        /\ HeadingAt(merged, FIELDS, 1) # 0
        /\ \A entry \in FullFieldEntries(child_text) : HasFieldEntry(merged, entry)

\* C27 of the first line of every entry alone.
C27_FirstLinesKept ==
    FieldsInherited =>
        /\ HeadingAt(merged, FIELDS, 1) # 0
        /\ \A i \in 1..Len(FieldEntries(child_text)) :
              HasFieldEntry(merged, FieldEntries(child_text)[i])

\* The child's entries stay whole when no ancestor gives a bullet.
C27_NothingInherited ==
    (Done /\ HeadingAt(child_text, FIELDS, 1) # 0 /\ Len(AncestorBullets) = 0) =>
        /\ HeadingAt(merged, FIELDS, 1) # 0
        /\ \A entry \in FullFieldEntries(child_text) : HasFieldEntry(merged, entry)
====
